---- MODULE Spec2Model ----
(***************************************************************************)
(* The websocket connection engine of the room client                      *)
(* (src/src/websocket): InternalWebSocket with its retry policy, the       *)
(* pending registration queues of WsHandler, the subscriber table and the  *)
(* dispatch of inbound frames and of status changes to the subscribers;    *)
(* and the feature modules that subscribe to it: the status banner         *)
(* (lib.rs), the chat room (chat.rs) and the media player (player.rs),     *)
(* with the JSON envelope they exchange.                                   *)
(***************************************************************************)
EXTENDS Integers, Sequences, FiniteSets, TLC

(* ------------------------------------------------------------------ *)
(* Program constants                                                   *)
(* ------------------------------------------------------------------ *)

\* settings.rs: the subscriber group ids of the feature modules
CHAT_ID == 1
PLAYER_ID == 2

\* opcodes.rs
OP_PLAY == 0
OP_PAUSE == 1
OP_SEEK == 2
OP_NEXT == 3
OP_PREV == 4
OP_MESSAGE == 5
OP_TIME_CHECK == 6
OP_ADD_TRACK == 7
OP_REMOVE_TRACK == 8
OP_SYNC_TRACKS == 9
OP_SET_BULK_TRACKS == 10

\* The length in seconds of the video the element has loaded
MaxPosition == 2

\* The tracks a client may hold that the other clients missed
MaxHeld == 2

\* ws.rs, on_disconnect: `if self.retry_attempt > 3`
RETRY_LIMIT == 3

\* chat.rs, TextInput::update: `if self.msg.len() < 1024`
MSG_CAPACITY == 1024

(* ------------------------------------------------------------------ *)
(* Bounds of the model                                                 *)
(* ------------------------------------------------------------------ *)

\* total number of subscribe_to_status / subscribe_to_message calls
MaxSubs == 3

\* the status history keeps at most this many broadcasts
MaxHist == 7

\* longest track list of a BulkVideos payload given to the codec
MaxBulk == 2

\* the chat room receives at most this many messages
MaxMessages == 2

\* live TimeoutTasks of the status banner
MaxTasks == 2

\* videos appended to a MediaPlaylist, and tracks it holds
MaxQueued == 3
MaxTracks == 3

\* messages the relay forwards to the media players
MaxRelayed == 3

\* keys typed into the chat input before it is submitted
MaxTyped == 2

\* send_message futures the chat input starts
MaxSent == 2

(* ------------------------------------------------------------------ *)
(* Values                                                              *)
(* ------------------------------------------------------------------ *)

\* Option::None for a callback slot; callbacks are numbered from 1, one
\* fresh Callback object per subscribe call
None == 0

Groups == {CHAT_ID, PLAYER_ID}

\* opcodes the modelled modules subscribe to
SubOps == {OP_NEXT, OP_MESSAGE}

\* opcodes inbound frames may carry
FrameOps == {OP_NEXT, OP_MESSAGE, OP_TIME_CHECK}

\* identifiers.rs: enum WebsocketStatus
WebsocketStatus == {"Connect", "Disconnect", "ClosedPermanently"}

\* identifiers.rs: enum WebsocketMessage (one payload value is enough to
\* tell Payload from Empty)
WebsocketMessage == {"Empty", "Payload"}

\* The text frames the transport may deliver: text that is no JSON object,
\* an object without an opcode field, and objects with an opcode whose
\* payload field is absent, null or a value.
Frames ==
    {[shape |-> "garbage", opcode |-> 0, payload |-> "absent"],
     [shape |-> "no_opcode", opcode |-> 0, payload |-> "value"]}
    \cup [shape : {"object"}, opcode : FrameOps,
          payload : {"absent", "null", "value"}]

\* from_str with a defaulted opcode field: an object without opcode decodes
\* as opcode 0
from_str_default(frame) ==
    IF frame.shape \in {"object", "no_opcode"}
    THEN [ok |-> TRUE,
          opcode |-> IF frame.shape = "object" THEN frame.opcode ELSE 0,
          payload |-> IF frame.payload = "value" THEN "Some" ELSE "None"]
    ELSE [ok |-> FALSE, opcode |-> 0, payload |-> "None"]

\* serde_json::from_str::<WrappingWsMessage>: Err unless the text is an
\* object with an opcode; payload: Option<Value> is None when the field is
\* absent or null.
from_str(frame) ==
    IF frame.shape = "object"
    THEN [ok |-> TRUE, opcode |-> frame.opcode,
          payload |-> IF frame.payload = "value" THEN "Some" ELSE "None"]
    ELSE [ok |-> FALSE, opcode |-> 0, payload |-> "None"]

\* on_message, lines 226-230: Some(payload) -> Payload, None -> Empty
to_message(payload) == IF payload = "Some" THEN "Payload" ELSE "Empty"

(* ------------------------------------------------------------------ *)
(* JSON values and the envelope codec (serde_json, WrappingWsMessage)  *)
(* ------------------------------------------------------------------ *)

\* serde_json::Value: Null, Number, String, Array, Object. An object is
\* held as its keys with, at the same positions, its values.
JNull == [t |-> "null", n |-> 0, s |-> "", keys |-> <<>>, items |-> <<>>]
JNum(n) == [JNull EXCEPT !.t = "num", !.n = n]
JStr(s) == [JNull EXCEPT !.t = "str", !.s = s]
JArr(items) == [JNull EXCEPT !.t = "arr", !.items = items]

\* the keys used by the envelope and the payload structs, in the order
\* serde_json's Map (a BTreeMap) keeps them
KeyOrder == <<"avatar", "content", "opcode", "payload", "pos", "title",
              "url", "username", "videos">>

Rank(key) == CHOOSE i \in DOMAIN KeyOrder : KeyOrder[i] = key

\* Map::insert: the keys stay sorted, the value of a key already there is
\* replaced
Map_insert(obj, key, value) ==
    IF \E i \in DOMAIN obj.keys : obj.keys[i] = key
    THEN [obj EXCEPT !.items =
             [i \in DOMAIN obj.items |->
                 IF obj.keys[i] = key THEN value ELSE obj.items[i]]]
    ELSE LET below == {i \in DOMAIN obj.keys : Rank(obj.keys[i]) < Rank(key)}
             at == Cardinality(below) + 1
             n == Len(obj.keys) + 1
         IN [obj EXCEPT
               !.keys = [i \in 1..n |->
                           IF i < at THEN obj.keys[i]
                           ELSE IF i = at THEN key ELSE obj.keys[i - 1]],
               !.items = [i \in 1..n |->
                           IF i < at THEN obj.items[i]
                           ELSE IF i = at THEN value ELSE obj.items[i - 1]]]

\* Map::new
Map_new == [JNull EXCEPT !.t = "obj"]

has_key(value, key) == \E i \in DOMAIN value.keys : value.keys[i] = key

get(value, key) ==
    value.items[CHOOSE i \in DOMAIN value.keys : value.keys[i] = key]

\* Option<Value>
NoPayload == [some |-> FALSE, value |-> JNull]
Some(value) == [some |-> TRUE, value |-> value]

\* chat.rs: struct Message, and serde_json::to_value of it
Message_to_value(m) ==
    Map_insert(Map_insert(Map_insert(Map_new,
        "username", JStr(m.username)), "avatar", JStr(m.avatar)),
        "content", JStr(m.content))

\* serde_json::from_value::<Message>: an object with the three string
\* fields (others are ignored), or an array of exactly three strings
Message_from_value(value) ==
    LET fail == [ok |-> FALSE,
                 value |-> [username |-> "", avatar |-> "", content |-> ""]]
        str(v) == v.t = "str"
    IN IF /\ value.t = "obj"
          /\ \A k \in {"username", "avatar", "content"} :
                has_key(value, k) /\ str(get(value, k))
       THEN [ok |-> TRUE,
             value |-> [username |-> get(value, "username").s,
                        avatar |-> get(value, "avatar").s,
                        content |-> get(value, "content").s]]
       ELSE IF /\ value.t = "arr"
               /\ Len(value.items) = 3
               /\ \A i \in 1..3 : str(value.items[i])
       THEN [ok |-> TRUE,
             value |-> [username |-> value.items[1].s,
                        avatar |-> value.items[2].s,
                        content |-> value.items[3].s]]
       ELSE fail

\* player.rs: struct Video, and serde_json::to_value of it
Video_to_value(v) ==
    Map_insert(Map_insert(Map_new, "title", JStr(v.title)), "url", JStr(v.url))

\* serde_json::from_value::<Video>
Video_from_value(value) ==
    LET fail == [ok |-> FALSE, value |-> [title |-> "", url |-> ""]]
    IN IF /\ value.t = "obj"
          /\ \A k \in {"title", "url"} :
                has_key(value, k) /\ get(value, k).t = "str"
       THEN [ok |-> TRUE, value |-> [title |-> get(value, "title").s,
                                     url |-> get(value, "url").s]]
       ELSE IF /\ value.t = "arr"
               /\ Len(value.items) = 2
               /\ \A i \in 1..2 : value.items[i].t = "str"
       THEN [ok |-> TRUE, value |-> [title |-> value.items[1].s,
                                     url |-> value.items[2].s]]
       ELSE fail

\* player.rs: struct BulkVideos, and serde_json::to_value of it
BulkVideos_to_value(videos) ==
    Map_insert(Map_new, "videos",
               JArr([i \in DOMAIN videos |-> Video_to_value(videos[i])]))

\* serde_json::from_value::<BulkVideos>
BulkVideos_from_value(value) ==
    LET list == IF value.t = "obj" /\ has_key(value, "videos")
                THEN get(value, "videos")
                ELSE IF value.t = "arr" /\ Len(value.items) = 1
                THEN value.items[1]
                ELSE JNull
    IN IF /\ list.t = "arr"
          /\ \A i \in DOMAIN list.items : Video_from_value(list.items[i]).ok
       THEN [ok |-> TRUE,
             value |-> [i \in DOMAIN list.items |->
                          Video_from_value(list.items[i]).value]]
       ELSE [ok |-> FALSE, value |-> <<>>]

\* player.rs: struct SeekTo { pos: u32 }, and serde_json::to_value of it
SeekTo_to_value(pos) == Map_insert(Map_new, "pos", JNum(pos))

\* serde_json::from_value::<SeekTo>: an object with a u32 "pos" (other keys
\* are ignored), or an array of exactly one u32; the numbers of the model
\* stay far below 2^32
SeekTo_from_value(value) ==
    LET u32(v) == v.t = "num" /\ v.n >= 0
    IN IF value.t = "obj" /\ has_key(value, "pos") /\ u32(get(value, "pos"))
       THEN [ok |-> TRUE, value |-> get(value, "pos").n]
       ELSE IF /\ value.t = "arr"
               /\ Len(value.items) = 1
               /\ u32(value.items[1])
       THEN [ok |-> TRUE, value |-> value.items[1].n]
       ELSE [ok |-> FALSE, value |-> 0]

\* The JSON text as its tokens: punctuation that only separates (commas,
\* colons) is left out, a key is told from a string.
Tok(kind) == [k |-> kind, s |-> "", n |-> 0]

\* serde_json's serializer for a Value
RECURSIVE write_value(_)
write_value(value) ==
    LET fields[i \in 0..Len(value.items)] ==
          IF i = 0 THEN <<>>
          ELSE fields[i - 1]
               \o (IF value.t = "obj"
                   THEN <<[Tok("key") EXCEPT !.s = value.keys[i]]>>
                   ELSE <<>>)
               \o write_value(value.items[i])
    IN CASE value.t = "null" -> <<Tok("null")>>
         [] value.t = "num" -> <<[Tok("num") EXCEPT !.n = value.n]>>
         [] value.t = "str" -> <<[Tok("str") EXCEPT !.s = value.s]>>
         [] value.t = "arr" ->
               <<Tok("[")>> \o fields[Len(value.items)] \o <<Tok("]")>>
         [] value.t = "obj" ->
               <<Tok("{")>> \o fields[Len(value.items)] \o <<Tok("}")>>

\* the derived Serialize of WrappingWsMessage writing opcode as a string
serialize_opcode_as_string(envelope) ==
    <<Tok("{"), [Tok("key") EXCEPT !.s = "opcode"],
      [Tok("str") EXCEPT !.s = "opcode"],
      [Tok("key") EXCEPT !.s = "payload"]>>
    \o (IF envelope.payload.some
        THEN write_value(envelope.payload.value) ELSE <<Tok("null")>>)
    \o <<Tok("}")>>

\* the derived Serialize of WrappingWsMessage: both fields in the order
\* of the struct, None written as null
serialize(envelope) ==
    <<Tok("{"), [Tok("key") EXCEPT !.s = "opcode"],
      [Tok("num") EXCEPT !.n = envelope.opcode],
      [Tok("key") EXCEPT !.s = "payload"]>>
    \o (IF envelope.payload.some
        THEN write_value(envelope.payload.value) ELSE <<Tok("null")>>)
    \o <<Tok("}")>>

\* serde_json's parser for a Value: the value read and the tokens left
RECURSIVE parse_value(_)
RECURSIVE parse_members(_, _, _)

\* the members of an array (obj FALSE) or object (obj TRUE) up to its
\* closing bracket, collected into `acc`
parse_members(tokens, obj, acc) ==
    LET fail == [ok |-> FALSE, value |-> JNull, rest |-> <<>>]
    IN IF tokens = <<>> THEN fail
       ELSE IF Head(tokens).k = (IF obj THEN "}" ELSE "]")
       THEN [ok |-> TRUE, value |-> acc, rest |-> Tail(tokens)]
       ELSE IF obj
       THEN IF Head(tokens).k # "key"
            THEN fail
            ELSE LET r == parse_value(Tail(tokens))
                 IN IF r.ok
                    THEN parse_members(r.rest, obj,
                                       Map_insert(acc, Head(tokens).s, r.value))
                    ELSE fail
       ELSE LET r == parse_value(tokens)
            IN IF r.ok
               THEN parse_members(r.rest, obj,
                       [acc EXCEPT !.items = Append(acc.items, r.value)])
               ELSE fail

parse_value(tokens) ==
    LET fail == [ok |-> FALSE, value |-> JNull, rest |-> <<>>]
    IN IF tokens = <<>> THEN fail
       ELSE CASE Head(tokens).k = "null" ->
                   [ok |-> TRUE, value |-> JNull, rest |-> Tail(tokens)]
              [] Head(tokens).k = "num" ->
                   [ok |-> TRUE, value |-> JNum(Head(tokens).n),
                    rest |-> Tail(tokens)]
              [] Head(tokens).k = "str" ->
                   [ok |-> TRUE, value |-> JStr(Head(tokens).s),
                    rest |-> Tail(tokens)]
              [] Head(tokens).k = "[" ->
                   parse_members(Tail(tokens), FALSE, JArr(<<>>))
              [] Head(tokens).k = "{" ->
                   parse_members(Tail(tokens), TRUE, Map_new)
              [] OTHER -> fail

\* the derived Deserialize of WrappingWsMessage: an object with a
\* non-negative integer opcode; payload absent or null is None
deserialize(tokens) ==
    LET r == parse_value(tokens)
        fail == [ok |-> FALSE,
                 envelope |-> [opcode |-> 0, payload |-> NoPayload]]
    IN IF /\ r.ok
          /\ r.rest = <<>>
          /\ r.value.t = "obj"
          /\ has_key(r.value, "opcode")
          /\ get(r.value, "opcode").t = "num"
          /\ get(r.value, "opcode").n >= 0
       THEN [ok |-> TRUE,
             envelope |->
               [opcode |-> get(r.value, "opcode").n,
                payload |-> IF has_key(r.value, "payload")
                               /\ get(r.value, "payload").t # "null"
                            THEN Some(get(r.value, "payload"))
                            ELSE NoPayload]]
       ELSE fail

(* ------------------------------------------------------------------ *)
(* State                                                               *)
(* ------------------------------------------------------------------ *)

VARIABLES
    connecting_first,   \* InternalWebSocket.connecting_first
    retry_attempt,      \* InternalWebSocket.retry_attempt
    subscribers,        \* InternalWebSocket.subscribers: group id -> Subscriber
    status_updates,     \* the StatusUpdateQueue, FIFO of <<id, cb>>
    message_updates,    \* the MessageUpdateQueue, FIFO of <<id, opcode, cb>>
    socket,             \* the transport behind InternalWebSocket.internal
    next_cb,            \* number of the next Callback object
    last_event,         \* the operation handled last
    calls,              \* callback invocations made while handling it, in order
    sent_status,        \* the status it passed to send_all_status, or "None"
    started,            \* the number of start_websocket calls it made
    reconnects,         \* start_websocket calls of reconnect since the most
                        \* recent Connect
    open_budget,        \* one plus the close events handled, less the
                        \* start_websocket calls made
    status_hist,        \* statuses broadcast since the most recent Connect
    ever_opened,        \* an open event has been handled
    ever_errored,       \* an error event has been handled
    closed_permanently, \* ClosedPermanently has been broadcast
    post_closed,        \* what the engine did in the events after that
    last_status_cb,     \* per group, the callback of its last subscribe_to_status
    last_msg_cb,        \* per group and opcode, that of its last subscribe_to_message
    reg_order           \* the groups in the order of their first subscribe call

engine == <<connecting_first, retry_attempt, subscribers, status_updates,
            message_updates, socket, next_cb>>
observed == <<last_event, calls, sent_status, started, reconnects,
              open_budget, status_hist, ever_opened, ever_errored, closed_permanently, post_closed,
              last_status_cb, last_msg_cb, reg_order>>

VARIABLES
    hide,               \* WsEventDisplay.hide
    connected,          \* WsEventDisplay.connected
    connecting,         \* WsEventDisplay.connecting
    connection_dead,    \* WsEventDisplay.connection_dead
    pending_tasks,      \* WsEventDisplay.pending_tasks: TimeoutTasks not yet fired
    messages,           \* ChatRoom.messages
    chat_crashed,       \* ChatRoom::update has panicked
    ui_event,           \* the event the banner or the chat room handled last
    videos,             \* per client, MediaPlayer.videos
    inbox,              \* per client, relayed messages not yet received
    relayed,            \* number of messages the relay has forwarded
    publishes,          \* per opcode, emit_event calls made by the players
    clicks,             \* per opcode, presses of the Next / Previous buttons
    rotated,            \* per client and opcode, rotations of its queue
    player_crashed,     \* per client, MediaPlayer::update has panicked
    before_sync,        \* per client, the queue its last SyncTracks drained
    emit_failed,        \* per client, an emit_event of it never reached the relay
    player_event,       \* the MediaPlayerEvent handled last
    envelope,           \* the WrappingWsMessage given to the serializer
    wire,               \* its JSON text
    decoded,            \* what the deserializer made of the text
    user,               \* TextInput: the UserInfo of who_am_i, if it came
    typed_msg,          \* TextInput: msg, the keys typed so far
    webhook_url,        \* TextInput: the url of the room's webhook
    outbox,             \* the send_message futures TextInput has started
    queued_videos,      \* MediaPlaylist: the videos set by the user
    extracted_videos,   \* MediaPlaylist: the tracks extracted from them
    playlist_crashed,   \* a method of the MediaPlaylist has panicked
    playlist_event,     \* the MediaPlaylist method called last
    first_start,        \* VideoPlayer.first_start
    ignore_time_check,  \* VideoPlayer.ignore_time_check
    playing,            \* VideoPlayer.player.playing
    position,           \* the position the video element was last sought to
    video_crashed,      \* VideoPlayer::update has panicked
    video_event         \* the VideoPlayerEvent handled last

display == <<hide, connected, connecting, connection_dead, pending_tasks>>
chat == <<messages, chat_crashed>>
input == <<user, typed_msg, webhook_url, outbox>>
ui == <<display, chat, input, ui_event>>
player == <<videos, inbox, relayed, publishes, clicks, rotated,
            player_crashed, before_sync, emit_failed, player_event>>
codec == <<envelope, wire, decoded>>
playlist == <<queued_videos, extracted_videos, playlist_crashed,
              playlist_event>>
videoplayer == <<first_start, ignore_time_check, playing, position,
                 video_crashed, video_event>>
modules == <<ui, player, codec, playlist, videoplayer>>

vars == <<engine, observed, modules>>

(* ------------------------------------------------------------------ *)
(* Subscriber (identifiers.rs)                                         *)
(* ------------------------------------------------------------------ *)

\* Subscriber::new: no status callback, an empty opcode map
Subscriber_new == [on_ws_status |-> None, on_ws_message |-> [o \in {} |-> None]]

\* an insert that empties the map first
insert_into_cleared(map, key, value) == [k \in {key} |-> value]

\* FxHashMap::insert on a map held as a function: the key's old value, if
\* any, is replaced
insert(map, key, value) ==
    [k \in (DOMAIN map) \cup {key} |-> IF k = key THEN value ELSE map[k]]

\* set_status_cb rebuilding the subscriber instead of updating it
set_status_cb_rebuilds(sub, cb) == [Subscriber_new EXCEPT !.on_ws_status = cb]

\* Subscriber::set_status_cb
set_status_cb(sub, cb) == [sub EXCEPT !.on_ws_status = cb]

\* subscribe keeping the callback already bound to the opcode
subscribe_keeps_first(sub, opcode, cb) ==
    IF opcode \in DOMAIN sub.on_ws_message THEN sub
    ELSE [sub EXCEPT !.on_ws_message = insert(sub.on_ws_message, opcode, cb)]

\* Subscriber::subscribe
subscribe(sub, opcode, cb) ==
    [sub EXCEPT !.on_ws_message = insert(sub.on_ws_message, opcode, cb)]

\* Subscriber::emit_status: the invocations it makes for group id
emit_status(sub, id, status) ==
    IF sub.on_ws_status # None
    THEN <<[group |-> id, cb |-> sub.on_ws_status, arg |-> status]>>
    ELSE <<>>

\* emit_message invoking a bound callback without matching the opcode
emit_message_any(sub, id, opcode, msg) ==
    IF DOMAIN sub.on_ws_message # {}
    THEN LET o == CHOOSE k \in DOMAIN sub.on_ws_message :
                      \A k2 \in DOMAIN sub.on_ws_message : k <= k2
         IN <<[group |-> id, cb |-> sub.on_ws_message[o], arg |-> msg]>>
    ELSE <<>>

\* emit_message falling back to the OP_MESSAGE callback for an unbound opcode
emit_message_default(sub, id, opcode, msg) ==
    IF opcode \in DOMAIN sub.on_ws_message
    THEN <<[group |-> id, cb |-> sub.on_ws_message[opcode], arg |-> msg]>>
    ELSE IF OP_MESSAGE \in DOMAIN sub.on_ws_message
    THEN <<[group |-> id, cb |-> sub.on_ws_message[OP_MESSAGE], arg |-> msg]>>
    ELSE <<>>

\* Subscriber::emit_message: the invocations it makes for group id
emit_message(sub, id, opcode, msg) ==
    IF opcode \in DOMAIN sub.on_ws_message
    THEN <<[group |-> id, cb |-> sub.on_ws_message[opcode], arg |-> msg]>>
    ELSE <<>>

(* ------------------------------------------------------------------ *)
(* InternalWebSocket (ws.rs)                                           *)
(* ------------------------------------------------------------------ *)

\* check_status_updates with `if let` for `while let`: one pop only
check_status_updates_single(subs, queue) ==
    IF queue = <<>> THEN subs
    ELSE LET id == Head(queue)[1]
             cb == Head(queue)[2]
             sub == IF id \in DOMAIN subs THEN subs[id] ELSE Subscriber_new
         IN insert(subs, id, set_status_cb(sub, cb))

\* check_status_updates: pops the queue until it is empty
RECURSIVE check_status_updates(_, _)
check_status_updates(subs, queue) ==
    IF queue = <<>> THEN subs
    ELSE LET id == Head(queue)[1]
             cb == Head(queue)[2]
             sub == IF id \in DOMAIN subs THEN subs[id] ELSE Subscriber_new
         IN check_status_updates(insert(subs, id, set_status_cb(sub, cb)),
                                 Tail(queue))

\* check_message_updates with `if let` for `while let`: one pop only
check_message_updates_single(subs, queue) ==
    IF queue = <<>> THEN subs
    ELSE LET id == Head(queue)[1]
             opcode == Head(queue)[2]
             cb == Head(queue)[3]
             sub == IF id \in DOMAIN subs THEN subs[id] ELSE Subscriber_new
         IN insert(subs, id, subscribe(sub, opcode, cb))

\* check_message_updates without the branch for a group already in the table
check_message_updates_new_only(subs, queue) ==
    LET F[i \in 0..Len(queue)] ==
          IF i = 0 THEN subs
          ELSE LET id == queue[i][1]
               IN IF id \in DOMAIN F[i - 1] THEN F[i - 1]
                  ELSE insert(F[i - 1], id,
                              subscribe(Subscriber_new, queue[i][2], queue[i][3]))
    IN F[Len(queue)]

\* check_message_updates: pops the queue until it is empty
RECURSIVE check_message_updates(_, _)
check_message_updates(subs, queue) ==
    IF queue = <<>> THEN subs
    ELSE LET id == Head(queue)[1]
             opcode == Head(queue)[2]
             cb == Head(queue)[3]
             sub == IF id \in DOMAIN subs THEN subs[id] ELSE Subscriber_new
         IN check_message_updates(insert(subs, id, subscribe(sub, opcode, cb)),
                                  Tail(queue))

\* The orders in which `self.subscribers.iter()` may visit the table: the
\* order of a hash map's iterator is unspecified, so every order of its
\* keys is possible.
iter(subs) ==
    {order \in [1..Cardinality(DOMAIN subs) -> DOMAIN subs] :
        \A i, j \in DOMAIN order : i # j => order[i] # order[j]}

\* send_all_status giving up at the first group without a status callback
RECURSIVE send_all_status_until_unset(_, _, _)
send_all_status_until_unset(subs, order, status) ==
    IF order = <<>> THEN <<>>
    ELSE IF subs[Head(order)].on_ws_status = None THEN <<>>
    ELSE emit_status(subs[Head(order)], Head(order), status)
         \o send_all_status_until_unset(subs, Tail(order), status)

\* send_all_status: the invocations made when the table is visited in `order`
RECURSIVE send_all_status(_, _, _)
send_all_status(subs, order, status) ==
    IF order = <<>> THEN <<>>
    ELSE emit_status(subs[Head(order)], Head(order), status)
         \o send_all_status(subs, Tail(order), status)

\* the loop of on_message leaving after the first subscriber
dispatch_message_first(subs, order, opcode, msg) ==
    IF order = <<>> THEN <<>>
    ELSE emit_message(subs[Head(order)], Head(order), opcode, msg)

\* the loop of on_message, lines 233-235
RECURSIVE dispatch_message(_, _, _, _)
dispatch_message(subs, order, opcode, msg) ==
    IF order = <<>> THEN <<>>
    ELSE emit_message(subs[Head(order)], Head(order), opcode, msg)
         \o dispatch_message(subs, Tail(order), opcode, msg)

\* WsHandler::subscribe_to_status / subscribe_to_message as called from a
\* callback: the registration <<id, cb>> or <<id, opcode, cb>> is pushed
\* onto its queue
enqueue(pending, reg) ==
    IF Len(reg) = 2
    THEN [pending EXCEPT !.status = Append(@, reg)]
    ELSE [pending EXCEPT !.message = Append(@, reg)]

\* the loop of on_message draining the queues again after every callback
dispatch_pass_rechecks(subs, pending, order, opcode, msg, push) ==
    LET F[i \in 0..Len(order)] ==
          IF i = 0
          THEN [calls |-> <<>>, subscribers |-> subs, pending |-> pending]
          ELSE LET prev == F[i - 1]
                   id == order[i]
                   c == IF id \in DOMAIN prev.subscribers
                        THEN emit_message(prev.subscribers[id], id, opcode, msg)
                        ELSE <<>>
                   p == IF c # <<>> /\ push.by = id
                        THEN enqueue(prev.pending, push.reg) ELSE prev.pending
               IN [calls |-> prev.calls \o c,
                   subscribers |->
                       check_message_updates(
                           check_status_updates(prev.subscribers, p.status),
                           p.message),
                   pending |-> [status |-> <<>>, message |-> <<>>]]
    IN F[Len(order)]

\* the loop of on_message, lines 233-235, when the callback of group
\* push.by calls subscribe_to_status or subscribe_to_message while it is
\* invoked: the invocations made, the table and the queues after the pass
dispatch_pass(subs, pending, order, opcode, msg, push) ==
    LET F[i \in 0..Len(order)] ==
          IF i = 0
          THEN [calls |-> <<>>, subscribers |-> subs, pending |-> pending]
          ELSE LET prev == F[i - 1]
                   id == order[i]
                   c == emit_message(subs[id], id, opcode, msg)
               IN [calls |-> prev.calls \o c,
                   subscribers |-> subs,
                   pending |-> IF c # <<>> /\ push.by = id
                               THEN enqueue(prev.pending, push.reg)
                               ELSE prev.pending]
    IN F[Len(order)]

\* reconnect without the connecting_first guard
reconnect_always(first) == 1

\* reconnect starting a second websocket as soon as it has started one
reconnect_twice(first) == IF first THEN 0 ELSE 2

\* reconnect: the number of start_websocket calls it makes
reconnect(first) == IF first THEN 0 ELSE 1

\* on_disconnect giving up one close earlier (>= for >)
on_disconnect_early(retry, first) ==
    IF retry >= RETRY_LIMIT
    THEN [status |-> "ClosedPermanently", retry_attempt |-> retry, started |-> 0]
    ELSE [status |-> "Disconnect", retry_attempt |-> retry + 1,
          started |-> reconnect(first)]

\* on_disconnect giving up one close later
on_disconnect_late(retry, first) ==
    IF retry > RETRY_LIMIT + 1
    THEN [status |-> "ClosedPermanently", retry_attempt |-> retry, started |-> 0]
    ELSE [status |-> "Disconnect", retry_attempt |-> retry + 1,
          started |-> reconnect(first)]

\* on_disconnect reconnecting in both branches
on_disconnect_reopens(retry, first) ==
    IF retry > RETRY_LIMIT
    THEN [status |-> "ClosedPermanently", retry_attempt |-> retry,
          started |-> reconnect(first)]
    ELSE [status |-> "Disconnect", retry_attempt |-> retry + 1,
          started |-> reconnect(first)]

\* on_disconnect starting a new retry budget once the old one is used up
on_disconnect_restarts(retry, first) ==
    IF retry > RETRY_LIMIT
    THEN [status |-> "ClosedPermanently", retry_attempt |-> 0,
          started |-> reconnect(first)]
    ELSE [status |-> "Disconnect", retry_attempt |-> retry + 1,
          started |-> reconnect(first)]

\* on_disconnect, lines 197-203: the status, the new retry_attempt and the
\* number of start_websocket calls
on_disconnect(retry, first) ==
    IF retry > RETRY_LIMIT
    THEN [status |-> "ClosedPermanently", retry_attempt |-> retry, started |-> 0]
    ELSE [status |-> "Disconnect", retry_attempt |-> retry + 1,
          started |-> reconnect(first)]

\* on_connect leaving retry_attempt as the closes left it
on_connect_keeps_retry == retry_attempt

\* on_connect, line 189
on_connect_retry == 0

\* on_error leaving connecting_first as it found it
on_error_keeps_first == connecting_first

\* on_error, line 211
on_error_first == FALSE

(* ------------------------------------------------------------------ *)
(* Bookkeeping of what was observed                                    *)
(* ------------------------------------------------------------------ *)

\* kind: the operation; for a frame its shape, whether it decoded, its
\* opcode and message; for a close whether the socket had opened; applied:
\* the callbacks of the registrations the handler took from its queue;
\* during: the callback registered by a callback the handler invoked
Event(kind) == [kind |-> kind, ok |-> TRUE, opcode |-> 0, msg |-> "Empty",
                was_open |-> FALSE, shape |-> "none", applied |-> {},
                during |-> None]

\* the callbacks of the registrations waiting in a queue
QueueCbs(queue) == {queue[i][Len(queue[i])] : i \in DOMAIN queue}

Push(hist, status) ==
    IF Len(hist) >= MaxHist THEN Append(Tail(hist), status)
    ELSE Append(hist, status)

\* Once ClosedPermanently has been broadcast, collect what later events do.
PostClosed(status, opens) ==
    IF closed_permanently
    THEN [statuses |-> post_closed.statuses \cup (IF status = "None" THEN {} ELSE {status}),
          started |-> post_closed.started \/ opens > 0]
    ELSE post_closed

(* ------------------------------------------------------------------ *)
(* Transport                                                           *)
(* ------------------------------------------------------------------ *)

\* The hooks the WebSocket made by startWs may call next, by its state: it
\* opens once while connecting, delivers text only while open, reports an
\* error at most once and then only closes, and calls nothing once closed.
delivers(state, hook) ==
    CASE hook = "open" -> state = "connecting"
      [] hook = "message" -> state = "open"
      [] hook = "error" -> state \in {"connecting", "open"}
      [] hook = "close" -> state \in {"connecting", "open",
                                      "error_connecting", "error_open"}

(* ------------------------------------------------------------------ *)
(* Feature modules: values and created state                           *)
(* ------------------------------------------------------------------ *)

\* the clients of one room
Clients == {1, 2}

\* the opcodes a MediaPlayer publishes
PlayerOps == {OP_NEXT, OP_PREV, OP_SET_BULK_TRACKS}

\* the opcodes of the Next and Previous buttons
ButtonOps == {OP_NEXT, OP_PREV}

\* the record of a handled banner, chat or text input event; for the text
\* input: whether the user was known, and the buffer and the number of
\* sends before the event
UiEvent(kind) ==
    [kind |-> kind, status |-> "None", by |-> "none", shape_ok |-> TRUE,
     before |-> <<>>, user_known |-> FALSE, typed |-> <<>>, sent |-> 0]

\* the record of a handled MediaPlayerEvent
PlayerEvent(kind) ==
    [kind |-> kind, client |-> 0, emit |-> FALSE, before |-> <<>>,
     published |-> <<>>, panicked |-> FALSE, msg |-> NoPayload]

\* no text has been deserialized
Undecoded ==
    [done |-> FALSE, ok |-> FALSE,
     envelope |-> [opcode |-> 0, payload |-> NoPayload]]

\* WsEventDisplay::create, and the first view (no button, no timeout)
WsEventDisplay_create ==
    /\ hide = FALSE
    /\ pending_tasks = 0
    /\ connected = FALSE
    /\ connecting = TRUE
    /\ connection_dead = FALSE
    /\ ui_event = UiEvent("create")

\* ChatRoom::create
ChatRoom_create ==
    /\ messages = <<>>
    /\ chat_crashed = FALSE

\* Option<UserInfo>: None
NoUser == [some |-> FALSE, value |-> [username |-> "", avatar |-> ""]]

\* TextInput::create: the two lookups are in flight
TextInput_create ==
    /\ typed_msg = <<>>
    /\ user = NoUser
    /\ webhook_url = ""
    /\ outbox = <<>>

\* the record of a MediaPlaylist method call: for delete_current the
\* queued videos and the number of tracks before it, for a rotation the
\* tracks before it and, for a rotate_prev that follows a rotate_next, the
\* tracks before both; direct_only: no method but append_video of a
\* direct link and delete_current has been called so far
PlaylistEvent(kind) ==
    [kind |-> kind, queued |-> <<>>, tracks |-> 0, extracted |-> <<>>,
     prev_kind |-> "none", prev_extracted |-> <<>>, direct_only |-> TRUE]

\* MediaPlaylist::new
MediaPlaylist_new ==
    /\ queued_videos = <<>>
    /\ extracted_videos = <<>>
    /\ playlist_crashed = FALSE
    /\ playlist_event = PlaylistEvent("new")

\* An event of the VideoPlayer: the state before it, the envelopes it
\* published through emit_event and the time checks it posted.
VideoPlayerEvent(kind) ==
    [kind |-> kind, remote |-> FALSE, msg |-> NoPayload,
     first_before |-> TRUE, playing_before |-> FALSE, position_before |-> 0,
     published |-> <<>>, posted |-> 0]

\* VideoPlayer::create, with Video::new: nothing plays, the element is at 0
VideoPlayer_create ==
    /\ first_start = TRUE
    /\ ignore_time_check = FALSE
    /\ playing = FALSE
    /\ position = 0
    /\ video_crashed = FALSE
    /\ video_event = VideoPlayerEvent("create")

\* MediaPlayer::create of every client, before the relay has a listener
MediaPlayer_create ==
    /\ videos = [c \in Clients |-> <<>>]
    /\ inbox = [c \in Clients |-> <<>>]
    /\ relayed = 0
    /\ publishes = [o \in PlayerOps |-> 0]
    /\ clicks = [o \in ButtonOps |-> 0]
    /\ rotated = [c \in Clients |-> [o \in ButtonOps |-> 0]]
    /\ player_crashed = [c \in Clients |-> FALSE]
    /\ before_sync = [c \in Clients |-> <<>>]
    /\ emit_failed = [c \in Clients |-> FALSE]
    /\ player_event = PlayerEvent("create")

(* ------------------------------------------------------------------ *)
(* Initial state: WsHandler::connect has returned                      *)
(* ------------------------------------------------------------------ *)

Init ==
    /\ connecting_first = TRUE
    /\ retry_attempt = 0
    /\ subscribers = [g \in {} |-> Subscriber_new]
    /\ status_updates = <<>>
    /\ message_updates = <<>>
    /\ socket = "connecting"
    /\ next_cb = 1
    /\ last_event = Event("connect")
    /\ calls = <<>>
    /\ sent_status = "None"
    /\ started = 1
    /\ reconnects = 0
    /\ open_budget = 0
    /\ status_hist = <<>>
    /\ ever_opened = FALSE
    /\ ever_errored = FALSE
    /\ closed_permanently = FALSE
    /\ post_closed = [statuses |-> {}, started |-> FALSE]
    /\ last_status_cb = [g \in Groups |-> None]
    /\ last_msg_cb = [g \in Groups |-> [o \in SubOps |-> None]]
    /\ reg_order = <<>>
    /\ WsEventDisplay_create
    /\ ChatRoom_create
    /\ TextInput_create
    /\ MediaPlayer_create
    /\ MediaPlaylist_new
    /\ VideoPlayer_create
    /\ envelope = [opcode |-> 0, payload |-> NoPayload]
    /\ wire = <<>>
    /\ decoded = Undecoded

(* ------------------------------------------------------------------ *)
(* Operations                                                          *)
(* ------------------------------------------------------------------ *)

Registered(id) ==
    IF \E i \in DOMAIN reg_order : reg_order[i] = id
    THEN reg_order ELSE Append(reg_order, id)

\* subscribe_to_status writing the callback into the table itself
subscribe_to_status_eager(id) ==
    /\ next_cb <= MaxSubs
    /\ subscribers' = check_status_updates(subscribers, <<<<id, next_cb>>>>)
    /\ next_cb' = next_cb + 1
    /\ last_status_cb' = [last_status_cb EXCEPT ![id] = next_cb]
    /\ reg_order' = Registered(id)
    /\ last_event' = Event("subscribe_to_status")
    /\ calls' = <<>>
    /\ sent_status' = "None"
    /\ started' = 0
    /\ UNCHANGED <<reconnects, open_budget>>
    /\ post_closed' = PostClosed("None", 0)
    /\ UNCHANGED <<connecting_first, retry_attempt, status_updates,
                   message_updates, socket, status_hist, ever_opened,
                   ever_errored, closed_permanently, last_msg_cb>>
    /\ UNCHANGED modules

\* WsHandler::subscribe_to_status
subscribe_to_status(id) ==
    /\ next_cb <= MaxSubs
    /\ status_updates' = Append(status_updates, <<id, next_cb>>)
    /\ next_cb' = next_cb + 1
    /\ last_status_cb' = [last_status_cb EXCEPT ![id] = next_cb]
    /\ reg_order' = Registered(id)
    /\ last_event' = Event("subscribe_to_status")
    /\ calls' = <<>>
    /\ sent_status' = "None"
    /\ started' = 0
    /\ UNCHANGED <<reconnects, open_budget>>
    /\ post_closed' = PostClosed("None", 0)
    /\ UNCHANGED <<connecting_first, retry_attempt, subscribers,
                   message_updates, socket, status_hist, ever_opened,
                   ever_errored, closed_permanently, last_msg_cb>>
    /\ UNCHANGED modules

\* WsHandler::subscribe_to_message
subscribe_to_message(id, opcode) ==
    /\ next_cb <= MaxSubs
    /\ message_updates' = Append(message_updates, <<id, opcode, next_cb>>)
    /\ next_cb' = next_cb + 1
    /\ last_msg_cb' = [last_msg_cb EXCEPT ![id][opcode] = next_cb]
    /\ reg_order' = Registered(id)
    /\ last_event' = Event("subscribe_to_message")
    /\ calls' = <<>>
    /\ sent_status' = "None"
    /\ started' = 0
    /\ UNCHANGED <<reconnects, open_budget>>
    /\ post_closed' = PostClosed("None", 0)
    /\ UNCHANGED <<connecting_first, retry_attempt, subscribers,
                   status_updates, socket, status_hist, ever_opened,
                   ever_errored, closed_permanently, last_status_cb>>
    /\ UNCHANGED modules

\* the onopen closure: InternalWebSocket::on_connect
OnOpen ==
    /\ delivers(socket, "open")
    /\ socket' = "open"
    /\ retry_attempt' = on_connect_retry
    /\ subscribers' = check_status_updates(subscribers, status_updates)
    /\ status_updates' = <<>>
    /\ \E order \in iter(subscribers') :
          calls' = send_all_status(subscribers', order, "Connect")
    /\ sent_status' = "Connect"
    /\ started' = 0
    /\ reconnects' = 0
    /\ UNCHANGED open_budget
    /\ last_event' = [Event("open") EXCEPT !.applied = QueueCbs(status_updates)]
    /\ status_hist' = <<"Connect">>
    /\ ever_opened' = TRUE
    /\ post_closed' = PostClosed("Connect", 0)
    /\ UNCHANGED <<connecting_first, message_updates, next_cb, ever_errored,
                   closed_permanently, last_status_cb, last_msg_cb, reg_order>>
    /\ UNCHANGED modules

\* the onclose closure: InternalWebSocket::on_disconnect
OnClose ==
    /\ delivers(socket, "close")
    /\ LET r == on_disconnect(retry_attempt, connecting_first) IN
        /\ retry_attempt' = r.retry_attempt
        /\ started' = r.started
        /\ reconnects' = reconnects + r.started
        /\ open_budget' = open_budget + 1 - r.started
        /\ socket' = IF r.started > 0 THEN "connecting" ELSE "closed"
        /\ sent_status' = r.status
        /\ subscribers' = check_status_updates(subscribers, status_updates)
        /\ status_updates' = <<>>
        /\ \E order \in iter(subscribers') :
              calls' = send_all_status(subscribers', order, r.status)
        /\ status_hist' = Push(status_hist, r.status)
        /\ closed_permanently' =
              (closed_permanently \/ r.status = "ClosedPermanently")
        /\ post_closed' = PostClosed(r.status, r.started)
    /\ last_event' = [Event("close") EXCEPT
                        !.was_open = socket \in {"open", "error_open"},
                        !.applied = QueueCbs(status_updates)]
    /\ UNCHANGED <<connecting_first, message_updates, next_cb, ever_opened,
                   ever_errored, last_status_cb, last_msg_cb, reg_order>>
    /\ UNCHANGED modules

\* the onerror closure: InternalWebSocket::on_error
OnError ==
    /\ delivers(socket, "error")
    /\ socket' = IF socket = "open" THEN "error_open" ELSE "error_connecting"
    /\ connecting_first' = on_error_first
    /\ last_event' = Event("error")
    /\ calls' = <<>>
    /\ sent_status' = "None"
    /\ started' = 0
    /\ UNCHANGED <<reconnects, open_budget>>
    /\ ever_errored' = TRUE
    /\ post_closed' = PostClosed("None", 0)
    /\ UNCHANGED <<retry_attempt, subscribers, status_updates,
                   message_updates, next_cb, status_hist, ever_opened,
                   closed_permanently, last_status_cb, last_msg_cb, reg_order>>
    /\ UNCHANGED modules

\* the onmessage closure: InternalWebSocket::on_message
OnMessage(frame) ==
    /\ delivers(socket, "message")
    /\ LET parsed == from_str(frame)
           msg == to_message(parsed.payload)
       IN IF ~parsed.ok
          THEN /\ last_event' = [Event("message") EXCEPT
                                    !.ok = FALSE, !.shape = frame.shape]
               /\ calls' = <<>>
               /\ UNCHANGED <<subscribers, message_updates>>
          ELSE /\ last_event' = [Event("message") EXCEPT
                                    !.opcode = parsed.opcode, !.msg = msg,
                                    !.shape = frame.shape,
                                    !.applied = QueueCbs(message_updates)]
               /\ subscribers' = check_message_updates(subscribers, message_updates)
               /\ message_updates' = <<>>
               /\ \E order \in iter(subscribers') :
                     calls' = dispatch_message(subscribers', order,
                                               parsed.opcode, msg)
    /\ sent_status' = "None"
    /\ started' = 0
    /\ UNCHANGED <<reconnects, open_budget>>
    /\ post_closed' = PostClosed("None", 0)
    /\ UNCHANGED <<connecting_first, retry_attempt, status_updates, socket,
                   next_cb, status_hist, ever_opened, ever_errored,
                   closed_permanently, last_status_cb, last_msg_cb, reg_order>>
    /\ UNCHANGED modules

\* the frames given to a pass in which a callback subscribes: well-formed,
\* of an opcode a module subscribes to, with a payload
PayloadFrames ==
    {f \in Frames : f.shape = "object" /\ f.opcode \in SubOps
                                       /\ f.payload = "value"}

\* the registrations a callback can make with the next Callback object
Registrations ==
    {<<id, next_cb>> : id \in Groups}
    \cup {<<id, opcode, next_cb>> : id \in Groups, opcode \in SubOps}

\* InternalWebSocket::on_message for a well-formed frame, when the callback
\* of group `by` subscribes (reg) while the pass invokes it
OnMessageSubscribing(frame, by, reg) ==
    /\ delivers(socket, "message")
    /\ next_cb <= MaxSubs
    /\ from_str(frame).ok
    /\ LET parsed == from_str(frame)
           msg == to_message(parsed.payload)
       IN /\ \E table \in {check_message_updates(subscribers, message_updates)} :
                /\ by \in DOMAIN table
                /\ parsed.opcode \in DOMAIN table[by].on_ws_message
                /\ \E r \in {dispatch_pass(table,
                                   [status |-> status_updates, message |-> <<>>],
                                   order, parsed.opcode, msg,
                                   [by |-> by, reg |-> reg]) :
                              order \in iter(table)} :
                      /\ calls' = r.calls
                      /\ subscribers' = r.subscribers
                      /\ status_updates' = r.pending.status
                      /\ message_updates' = r.pending.message
          /\ last_event' = [Event("message") EXCEPT
                              !.opcode = parsed.opcode, !.msg = msg,
                              !.shape = frame.shape,
                              !.applied = QueueCbs(message_updates),
                              !.during = next_cb]
    /\ next_cb' = next_cb + 1
    /\ last_status_cb' = IF Len(reg) = 2
                         THEN [last_status_cb EXCEPT ![reg[1]] = next_cb]
                         ELSE last_status_cb
    /\ last_msg_cb' = IF Len(reg) = 3
                      THEN [last_msg_cb EXCEPT ![reg[1]][reg[2]] = next_cb]
                      ELSE last_msg_cb
    /\ reg_order' = Registered(reg[1])
    /\ sent_status' = "None"
    /\ started' = 0
    /\ UNCHANGED <<reconnects, open_budget>>
    /\ post_closed' = PostClosed("None", 0)
    /\ UNCHANGED <<connecting_first, retry_attempt, socket, status_hist,
                   ever_opened, ever_errored, closed_permanently>>
    /\ UNCHANGED modules

Next ==
    \/ \E id \in Groups : subscribe_to_status(id)
    \/ \E id \in Groups, opcode \in SubOps : subscribe_to_message(id, opcode)
    \/ OnOpen
    \/ OnClose
    \/ OnError
    \/ \E frame \in Frames : OnMessage(frame)
    \/ \E frame \in PayloadFrames, by \in Groups, reg \in Registrations :
          OnMessageSubscribing(frame, by, reg)

Spec == Init /\ [][Next]_vars

(* ------------------------------------------------------------------ *)
(* Retry policy                                                        *)
(* ------------------------------------------------------------------ *)

\* C1 as stated: after a Connect, four consecutive closes broadcast
\* Disconnect, Disconnect, Disconnect, ClosedPermanently.
C1_FourthCloseIsPermanent ==
    (Len(status_hist) = 5 /\ status_hist[1] = "Connect")
        => SubSeq(status_hist, 2, 5) =
             <<"Disconnect", "Disconnect", "Disconnect", "ClosedPermanently">>

\* C1 amended: after a Connect, consecutive closes broadcast four times
\* Disconnect and ClosedPermanently on the fifth close, and nothing after it.
C1_FifthCloseIsPermanent ==
    (status_hist # <<>> /\ status_hist[1] = "Connect")
        => /\ Len(status_hist) <= 6
           /\ status_hist =
                SubSeq(<<"Connect", "Disconnect", "Disconnect", "Disconnect",
                         "Disconnect", "ClosedPermanently">>,
                       1, Len(status_hist))

C1_Witness ==
    /\ status_hist = <<"Connect", "Disconnect", "Disconnect", "Disconnect",
                       "Disconnect", "ClosedPermanently">>
    /\ last_event.kind = "close"

\* C2: after ClosedPermanently has been broadcast, no later event makes the
\* engine call start_websocket.
C2_NoOpenAfterClosedPermanently ==
    closed_permanently => (~post_closed.started /\ socket = "closed")

C2_Witness ==
    /\ closed_permanently
    /\ last_event.kind = "close"
    /\ sent_status = "ClosedPermanently"
    /\ started = 0

\* C3: after ClosedPermanently has been broadcast, no later broadcast
\* carries Connect or Disconnect.
C3_ClosedPermanentlyAbsorbing ==
    post_closed.statuses \cap {"Connect", "Disconnect"} = {}

C3_Witness ==
    /\ closed_permanently
    /\ last_event.kind \in {"subscribe_to_status", "subscribe_to_message"}
    /\ post_closed.statuses = {}

\* the close just handled ended the first connection attempt, which never opened
FirstAttemptClosed ==
    /\ last_event.kind = "close"
    /\ ~ever_opened
    /\ status_hist = <<sent_status>>

\* C4 as stated: the first attempt closing before any open broadcasts
\* Disconnect and starts no websocket, with or without an error before it.
C4_FirstAttemptNeverReconnects ==
    FirstAttemptClosed => (sent_status = "Disconnect" /\ started = 0)

\* C4 amended: the first attempt closing before any open, with no error
\* event before the close, broadcasts Disconnect and starts no websocket;
\* with an error event before the close it broadcasts Disconnect and
\* starts one.
C4_FirstAttemptWithoutError ==
    FirstAttemptClosed =>
        /\ sent_status = "Disconnect"
        /\ started = (IF ever_errored THEN 1 ELSE 0)

C4_Witness ==
    /\ FirstAttemptClosed
    /\ ~ever_errored
    /\ sent_status = "Disconnect"
    /\ socket = "closed"

\* C5: a close of a connection that had opened broadcasts Disconnect and
\* starts exactly one websocket, with or without an error before it.
C5_CloseAfterConnectedReconnects ==
    (last_event.kind = "close" /\ last_event.was_open)
        => (sent_status = "Disconnect" /\ started = 1)

(* ------------------------------------------------------------------ *)
(* Subscriber table and dispatch                                       *)
(* ------------------------------------------------------------------ *)

\* a well-formed inbound message has just been dispatched
Dispatched ==
    last_event.kind = "message" /\ last_event.ok /\ last_event.during = None

\* a status has just been broadcast
Broadcast == last_event.kind \in {"open", "close"}

\* the invocations of the last handler that went to group id
CallsOf(id) == SelectSeq(calls, LAMBDA c : c.group = id)

\* the groups holding a callback for the opcode
BoundTo(opcode) ==
    {id \in DOMAIN subscribers : opcode \in DOMAIN subscribers[id].on_ws_message}

\* the position of a group in the order of first registration
RegPos(id) == CHOOSE i \in DOMAIN reg_order : reg_order[i] = id

\* a registration for (id, opcode) is still in the message queue
PendingMessage(id, opcode) ==
    \E i \in DOMAIN message_updates :
        message_updates[i][1] = id /\ message_updates[i][2] = opcode

\* C6: a dispatch of opcode op invokes, for each group that subscribed to
\* op, the callback of its last subscribe_to_message(g, op) and no other.
C6_LastMessageCallbackWins ==
    Dispatched =>
        \A id \in Groups :
            (last_event.opcode \in SubOps
             /\ last_msg_cb[id][last_event.opcode] # None)
                => CallsOf(id) =
                     <<[group |-> id,
                        cb |-> last_msg_cb[id][last_event.opcode],
                        arg |-> last_event.msg]>>

\* both subscribe calls made so far were for the same group and opcode
C6_Witness ==
    /\ Dispatched
    /\ next_cb = 3
    /\ \E id \in Groups :
          /\ last_event.opcode \in SubOps
          /\ last_msg_cb[id][last_event.opcode] = 2
          /\ Len(calls) = 1
          /\ calls[1].cb = 2
          /\ \A g \in Groups : last_status_cb[g] = None
          /\ \A g \in Groups, o \in SubOps :
                last_msg_cb[g][o] # None => (g = id /\ o = last_event.opcode)

\* C7: a status broadcast invokes, for each group that subscribed to the
\* status, the callback of its last subscribe_to_status and no other; and a
\* message binding, once registered, is pending or in the table with the
\* callback registered last.
C7_LastStatusCallbackWins ==
    /\ Broadcast =>
          \A id \in Groups :
              last_status_cb[id] # None
                 => CallsOf(id) = <<[group |-> id, cb |-> last_status_cb[id],
                                     arg |-> sent_status]>>
    /\ \A id \in Groups, opcode \in SubOps :
          (last_msg_cb[id][opcode] # None /\ ~PendingMessage(id, opcode))
             => /\ id \in DOMAIN subscribers
                /\ opcode \in DOMAIN subscribers[id].on_ws_message
                /\ subscribers[id].on_ws_message[opcode] = last_msg_cb[id][opcode]

\* one group registered a message binding, had it applied, and subscribed
\* to the status twice
C7_Witness ==
    /\ Broadcast
    /\ next_cb = 4
    /\ \E id \in Groups, opcode \in SubOps :
          /\ last_msg_cb[id][opcode] = 1
          /\ last_status_cb[id] = 3
          /\ id \in BoundTo(opcode)
          /\ subscribers[id].on_ws_message[opcode] = 1
          /\ calls = <<[group |-> id, cb |-> 3, arg |-> sent_status]>>

\* C8: a dispatch invokes, for each group bound to the opcode, the callback
\* bound to it exactly once with the message, and invokes nothing else.
C8_FanOutExactlyOnce ==
    Dispatched =>
        /\ Len(calls) = Cardinality(BoundTo(last_event.opcode))
        /\ \A id \in BoundTo(last_event.opcode) :
              CallsOf(id) =
                <<[group |-> id,
                   cb |-> subscribers[id].on_ws_message[last_event.opcode],
                   arg |-> last_event.msg]>>

\* two groups bound to the opcode, one of them also to another opcode
C8_Witness ==
    /\ Dispatched
    /\ Len(calls) = 2
    /\ last_event.msg = "Payload"
    /\ \E id \in DOMAIN subscribers :
          DOMAIN subscribers[id].on_ws_message = SubOps

\* C9 as stated: within one dispatch the groups are invoked in the order
\* in which they registered.
C9_RegistrationOrder ==
    Dispatched =>
        \A i, j \in DOMAIN calls :
            i < j => RegPos(calls[i].group) < RegPos(calls[j].group)

\* C9 amended: within one dispatch the groups bound to the opcode are
\* invoked one after the other in the iteration order of the subscriber
\* table, each once; that order need not be the registration order.
C9_TableIterationOrder ==
    Dispatched =>
        /\ \A i, j \in DOMAIN calls : i # j => calls[i].group # calls[j].group
        /\ {calls[i].group : i \in DOMAIN calls} = BoundTo(last_event.opcode)

\* the group that registered second was invoked first
C9_Witness ==
    /\ Dispatched
    /\ Len(calls) = 2
    /\ RegPos(calls[1].group) > RegPos(calls[2].group)

\* C10: dispatching an opcode nobody subscribed to invokes no callback,
\* broadcasts no status, starts no websocket and leaves the connection open
\* for the next event.
C10_UnsubscribedOpcodeDropped ==
    (Dispatched /\ BoundTo(last_event.opcode) = {})
        => /\ calls = <<>>
           /\ sent_status = "None"
           /\ started = 0
           /\ socket = "open"

\* the table holds a binding, but none for the opcode that arrived
C10_Witness ==
    /\ Dispatched
    /\ BoundTo(last_event.opcode) = {}
    /\ BoundTo(OP_MESSAGE) # {}
    /\ calls = <<>>

(* ------------------------------------------------------------------ *)
(* Pending registrations                                               *)
(* ------------------------------------------------------------------ *)

\* a well-formed message has been dispatched and a callback invoked by the
\* pass subscribed meanwhile
DispatchedSubscribing ==
    last_event.kind = "message" /\ last_event.ok /\ last_event.during # None

\* the callbacks held by the subscriber table
TableCbs ==
    UNION {{subscribers[id].on_ws_status}
           \cup {subscribers[id].on_ws_message[o] :
                    o \in DOMAIN subscribers[id].on_ws_message} :
           id \in DOMAIN subscribers}

\* C11: a subscribe call made by a callback during a dispatch pass stays in
\* its pending queue, is not in the subscriber table, and the pass invokes
\* exactly the callbacks bound to the opcode before the call.
C11_PassIgnoresRegistration ==
    DispatchedSubscribing =>
        /\ last_event.during \in
              QueueCbs(status_updates) \cup QueueCbs(message_updates)
        /\ last_event.during \notin TableCbs
        /\ \A i \in DOMAIN calls : calls[i].cb # last_event.during
        /\ Len(calls) = Cardinality(BoundTo(last_event.opcode))
        /\ \A id \in BoundTo(last_event.opcode) :
              CallsOf(id) =
                <<[group |-> id,
                   cb |-> subscribers[id].on_ws_message[last_event.opcode],
                   arg |-> last_event.msg]>>

\* a callback subscribed another group, not yet bound, to the opcode being
\* dispatched
C11_Witness ==
    /\ DispatchedSubscribing
    /\ Len(calls) = 1
    /\ \E i \in DOMAIN message_updates :
          /\ message_updates[i][2] = last_event.opcode
          /\ message_updates[i][3] = last_event.during
          /\ message_updates[i][1] \notin BoundTo(last_event.opcode)
          /\ message_updates[i][1] # calls[1].group

\* C12: a status broadcast leaves no status registration pending, and every
\* group's last status callback taken from the queue by this transition is
\* invoked with the status of the transition.
C12_StatusFlushedBeforeBroadcast ==
    Broadcast =>
        /\ status_updates = <<>>
        /\ \A id \in Groups :
              last_status_cb[id] \in last_event.applied
                 => \E i \in DOMAIN calls :
                       calls[i] = [group |-> id, cb |-> last_status_cb[id],
                                   arg |-> sent_status]

\* two groups subscribed since the last transition, both are invoked
C12_Witness ==
    /\ Broadcast
    /\ Cardinality(last_event.applied) = 2
    /\ Len(calls) = 2
    /\ \A i \in DOMAIN calls :
          calls[i].cb \in last_event.applied /\ calls[i].arg = sent_status

\* C13: a message registration taken from the queue by a dispatch pass is
\* in effect for that pass: if the message carries its opcode, the
\* group's newly registered callback is invoked.
C13_VisibleAtNextPass ==
    Dispatched =>
        \A id \in Groups :
            (last_event.opcode \in SubOps
             /\ last_msg_cb[id][last_event.opcode] \in last_event.applied)
                => \E i \in DOMAIN calls :
                      calls[i] = [group |-> id,
                                  cb |-> last_msg_cb[id][last_event.opcode],
                                  arg |-> last_event.msg]

\* a binding applied by an earlier pass is in the table, and the one
\* registered since is invoked by this pass
C13_Witness ==
    /\ Dispatched
    /\ \E c \in last_event.applied :
          /\ last_event.applied = {c}
          /\ \E i \in DOMAIN calls : calls[i].cb = c
          /\ \E d \in TableCbs : d # None /\ d < c

\* C14 as stated: once a message has been dispatched or a status broadcast,
\* no registration of either kind is pending.
C14_AppliedAtNextEvent ==
    (Dispatched \/ Broadcast)
        => (status_updates = <<>> /\ message_updates = <<>>)

\* C14 amended: after a status broadcast every status registration made so
\* far is in the subscriber table, and after the dispatch of a well-formed
\* message every message registration made before it is; a status
\* registration is not applied by a dispatch, nor a message registration by
\* a status broadcast.
C14_AppliedAtNextEventOfItsKind ==
    /\ Broadcast =>
          /\ \A id \in Groups :
                last_status_cb[id] # None
                   => /\ id \in DOMAIN subscribers
                      /\ subscribers[id].on_ws_status = last_status_cb[id]
          /\ QueueCbs(message_updates) \cap TableCbs = {}
    /\ Dispatched =>
          /\ \A id \in Groups, opcode \in SubOps :
                last_msg_cb[id][opcode] # None
                   => /\ id \in BoundTo(opcode)
                      /\ subscribers[id].on_ws_message[opcode] =
                            last_msg_cb[id][opcode]
          /\ QueueCbs(status_updates) \cap TableCbs = {}

\* a dispatch applied two message registrations while a status
\* registration stays pending
C14_Witness ==
    /\ Dispatched
    /\ Cardinality(last_event.applied) = 2
    /\ status_updates # <<>>

\* C15: handling a frame that does not decode invokes no callback,
\* broadcasts no status, starts no websocket and changes neither
\* retry_attempt, the subscriber table, the queues nor the connection.
C15_MalformedFrameDropped ==
    [][(last_event'.kind = "message"
        /\ last_event'.shape \in {"garbage", "no_opcode"})
          => /\ calls' = <<>>
             /\ sent_status' = "None"
             /\ started' = 0
             /\ UNCHANGED <<retry_attempt, subscribers, status_updates,
                            message_updates, connecting_first, socket>>]_vars

\* a malformed frame arrived while the table held a subscriber and a
\* message registration was pending
C15_Witness ==
    /\ last_event.kind = "message"
    /\ ~last_event.ok
    /\ message_updates # <<>>
    /\ DOMAIN subscribers # {}
    /\ socket = "open"

(* ------------------------------------------------------------------ *)
(* The status banner (lib.rs) and the chat room (chat.rs)              *)
(* ------------------------------------------------------------------ *)

\* WsEventDisplay::update, Status(status), with Connect leaving
\* self.connecting as it was set by create
on_status_connect_keeps_connecting(status) ==
    [connecting |-> status \in {"Disconnect", "Connect"},
     connected |-> status = "Connect",
     connection_dead |-> status = "ClosedPermanently"]

\* WsEventDisplay::update, Status(status): the three flags
on_status(status) ==
    [connecting |-> status = "Disconnect",
     connected |-> status = "Connect",
     connection_dead |-> status = "ClosedPermanently"]

\* WsEventDisplay::update, Hide, without the test of self.connected
on_hide_unconditional(is_connected, hidden) == TRUE

\* WsEventDisplay::update, Hide: `if self.connected { self.hide = true }`
on_hide(is_connected, hidden) == IF is_connected THEN TRUE ELSE hidden

\* WsEventDisplay::view: a banner rendered while connected spawns a
\* TimeoutTask and pushes it on pending_tasks
view(hidden, is_connected, tasks) ==
    IF ~hidden /\ is_connected THEN tasks + 1 ELSE tasks

\* the status callback of the banner: update for Status(status), then view
Display_Status(status) ==
    /\ pending_tasks < MaxTasks
    /\ connecting' = on_status(status).connecting
    /\ connected' = on_status(status).connected
    /\ connection_dead' = on_status(status).connection_dead
    /\ hide' = FALSE
    /\ pending_tasks' = view(FALSE, on_status(status).connected, pending_tasks)
    /\ ui_event' = [UiEvent("status") EXCEPT !.status = status]
    /\ UNCHANGED <<engine, observed, chat, input, player, codec, playlist, videoplayer>>

\* Hide from the button of a rendered banner or from a TimeoutTask that
\* fires: update drains pending_tasks, then view
Display_Hide(by) ==
    /\ by = "button" => ~hide /\ connected
    /\ by = "timeout" => pending_tasks > 0
    /\ hide' = on_hide(connected, hide)
    /\ pending_tasks' = view(on_hide(connected, hide), connected, 0)
    /\ ui_event' = [UiEvent("hide") EXCEPT !.by = by]
    /\ UNCHANGED <<connected, connecting, connection_dead>>
    /\ UNCHANGED <<engine, observed, chat, input, player, codec, playlist, videoplayer>>

\* the chat messages users send
ChatMessages == [username : {"a"}, avatar : {"b"}, content : {"c", "d"}]

\* what the OP_MESSAGE callback of the chat room may be given: Empty, the
\* payload of a chat message, an object without its content, a string
ChatInbound ==
    {NoPayload}
    \cup {Some(Message_to_value(m)) : m \in ChatMessages}
    \cup {Some(Map_insert(Map_new, "username", JStr("a"))), Some(JStr("c"))}

\* ChatRoom::update: Empty returns, a payload is decoded with
\* from_value(..).unwrap() and pushed
ChatRoom_update(msg) ==
    /\ ~chat_crashed
    /\ Len(messages) < MaxMessages
    /\ LET r == Message_from_value(msg.value)
       IN /\ IF ~msg.some
             THEN UNCHANGED <<messages, chat_crashed>>
             ELSE IF r.ok
             THEN /\ messages' = Append(messages, r.value)
                  /\ UNCHANGED chat_crashed
             ELSE /\ chat_crashed' = TRUE
                  /\ UNCHANGED messages
          /\ ui_event' = [UiEvent("chat") EXCEPT
                            !.by = IF msg.some THEN "Payload" ELSE "Empty",
                            !.shape_ok = r.ok,
                            !.before = messages]
    /\ UNCHANGED <<engine, observed, display, input, player, codec, playlist, videoplayer>>

\* the users who_am_i may answer with, the webhooks acquire_webhook may
\* answer with, and the keys of a KeyboardEvent
Users == {[username |-> "a", avatar |-> "b"]}
Webhooks == {"hook"}
Keys == {"c", "d", "Enter"}

\* Vec<String>::join("")
RECURSIVE join(_)
join(keys) == IF keys = <<>> THEN "" ELSE Head(keys) \o join(Tail(keys))

\* send_message: the webhook post, then emit_event of OP_MESSAGE
send_message(url, m) ==
    [webhook |-> url,
     post |-> [username |-> m.username, avatar_url |-> m.avatar,
               content |-> m.content],
     publish |-> [opcode |-> OP_MESSAGE, payload |-> Some(Message_to_value(m))]]

\* TextInput::submit that sends whether or not the user is known
submit_anonymous(who, typed, url) ==
    [typed |-> <<>>,
     sends |-> <<send_message(url, [username |-> who.value.username,
                                    avatar |-> who.value.avatar,
                                    content |-> join(typed)])>>,
     render |-> TRUE]

\* TextInput::submit: with a user the buffer is joined, cleared and sent;
\* without one nothing is done
submit(who, typed, url) ==
    IF who.some
    THEN [typed |-> <<>>,
          sends |-> <<send_message(url, [username |-> who.value.username,
                                         avatar |-> who.value.avatar,
                                         content |-> join(typed)])>>,
          render |-> TRUE]
    ELSE [typed |-> typed, sends |-> <<>>, render |-> FALSE]

\* what TextInput::update has just been given
InputEvent(kind, key) ==
    [UiEvent(kind) EXCEPT !.by = key, !.user_known = user.some,
                          !.typed = typed_msg, !.sent = Len(outbox)]

\* TextInput::update, Submit
TextInput_Submit ==
    /\ Len(outbox) < MaxSent
    /\ LET r == submit(user, typed_msg, webhook_url)
       IN /\ typed_msg' = r.typed
          /\ outbox' = outbox \o r.sends
    /\ ui_event' = InputEvent("submit", "button")
    /\ UNCHANGED <<user, webhook_url>>
    /\ UNCHANGED <<engine, observed, display, chat, player, codec, playlist, videoplayer>>

\* TextInput::update, KeyPress(key): ignored without a user, Enter submits,
\* any other key is pushed while the buffer has room
TextInput_KeyPress(key) ==
    /\ Len(outbox) < MaxSent
    /\ Len(typed_msg) < MaxTyped
    /\ LET r == submit(user, typed_msg, webhook_url)
       IN IF ~user.some
          THEN UNCHANGED <<typed_msg, outbox>>
          ELSE IF key = "Enter"
          THEN /\ typed_msg' = r.typed
               /\ outbox' = outbox \o r.sends
          ELSE /\ typed_msg' = IF Len(typed_msg) < MSG_CAPACITY
                               THEN Append(typed_msg, key) ELSE typed_msg
               /\ UNCHANGED outbox
    /\ ui_event' = InputEvent("keypress", key)
    /\ UNCHANGED <<user, webhook_url>>
    /\ UNCHANGED <<engine, observed, display, chat, player, codec, playlist, videoplayer>>

\* TextInput::update, WhoAmI(user)
TextInput_WhoAmI(who) ==
    /\ user' = [some |-> TRUE, value |-> who]
    /\ ui_event' = InputEvent("who_am_i", "none")
    /\ UNCHANGED <<typed_msg, webhook_url, outbox>>
    /\ UNCHANGED <<engine, observed, display, chat, player, codec, playlist, videoplayer>>

\* TextInput::update, Webhook(wh)
TextInput_Webhook(url) ==
    /\ webhook_url' = url
    /\ ui_event' = InputEvent("webhook", "none")
    /\ UNCHANGED <<user, typed_msg, outbox>>
    /\ UNCHANGED <<engine, observed, display, chat, player, codec, playlist, videoplayer>>

\* TextInput::update, RequestError: logged
TextInput_RequestError ==
    /\ ui_event' = InputEvent("request_error", "none")
    /\ UNCHANGED input
    /\ UNCHANGED <<engine, observed, display, chat, player, codec, playlist, videoplayer>>

UiNext ==
    \/ \E status \in WebsocketStatus : Display_Status(status)
    \/ \E by \in {"button", "timeout"} : Display_Hide(by)
    \/ \E msg \in ChatInbound : ChatRoom_update(msg)

UiSpec == Init /\ [][UiNext]_vars

\* the chat input on its own: its events come from the keyboard, the
\* button and its two lookups
InputNext ==
    \/ TextInput_Submit
    \/ \E key \in Keys : TextInput_KeyPress(key)
    \/ \E who \in Users : TextInput_WhoAmI(who)
    \/ \E url \in Webhooks : TextInput_Webhook(url)
    \/ TextInput_RequestError

InputSpec == Init /\ [][InputNext]_vars

\* C16: a chat payload that is not a Message is dropped: the chat room
\* does not crash and its messages are unchanged.
C16_MismatchedPayloadDropped ==
    (ui_event.kind = "chat" /\ ui_event.by = "Payload" /\ ~ui_event.shape_ok)
        => (~chat_crashed /\ messages = ui_event.before)

\* C20: the banner is hidden only while connected, and never while the
\* connection is dead.
C20_HiddenOnlyWhileConnected ==
    /\ hide => connected
    /\ connection_dead => ~hide

\* a timeout of an earlier connection fired after ClosedPermanently and
\* left the banner shown
C20_Witness ==
    /\ ui_event.kind = "hide"
    /\ ui_event.by = "timeout"
    /\ connection_dead
    /\ ~hide

\* the number of flags of the banner that are set
FlagsSet ==
    (IF connecting THEN 1 ELSE 0) + (IF connected THEN 1 ELSE 0)
        + (IF connection_dead THEN 1 ELSE 0)

\* C21: in every state of the banner exactly one of connecting, connected
\* and connection_dead is true, after any status and Hide events.
C21_ExactlyOneFlag == FlagsSet = 1

\* a Disconnect that follows a connection whose banner was rendered:
\* connecting is the one flag set again
C21_Witness ==
    /\ ui_event.kind = "status"
    /\ ui_event.status = "Disconnect"
    /\ pending_tasks > 0
    /\ connecting

\* C22: a submit (the Submit event or the Enter key) while the user is not
\* known does nothing: no send_message is started, so no webhook post and
\* no publish, and the typed buffer is unchanged.
C22_SubmitWithoutUserIsNoOp ==
    (/\ ui_event.kind \in {"submit", "keypress"}
     /\ ui_event.by \in {"button", "Enter"}
     /\ ~ui_event.user_known)
        => (Len(outbox) = ui_event.sent /\ typed_msg = ui_event.typed)

\* the Submit button pressed before who_am_i has answered, after the
\* webhook has
C22_Witness ==
    /\ ui_event.kind = "submit"
    /\ ~ui_event.user_known
    /\ ~user.some
    /\ webhook_url = "hook"
    /\ outbox = <<>>

(* ------------------------------------------------------------------ *)
(* The media player (player.rs) behind an echoing relay                *)
(* ------------------------------------------------------------------ *)

\* the tracks of the room
Videos == {[title |-> "t1", url |-> "u1"], [title |-> "t2", url |-> "u2"]}

\* WrappingWsMessage
Envelope(opcode, payload) == [opcode |-> opcode, payload |-> payload]

\* VecDeque::rotate_left(1): `assert!(n <= self.len())` panics on an
\* empty deque
rotate_left(q) ==
    IF q = <<>> THEN [ok |-> FALSE, videos |-> q]
    ELSE [ok |-> TRUE, videos |-> Tail(q) \o <<Head(q)>>]

\* VecDeque::rotate_right(1)
rotate_right(q) ==
    IF q = <<>> THEN [ok |-> FALSE, videos |-> q]
    ELSE [ok |-> TRUE, videos |-> <<q[Len(q)]>> \o SubSeq(q, 1, Len(q) - 1)]

\* what one call of MediaPlayer::update does: the queue it leaves, the
\* envelopes it hands to emit_event, whether it panicked
Handled(q, published, panicked) ==
    [videos |-> q, rotations |-> 0, published |-> published,
     panicked |-> panicked]

\* the same for a call of rotate_left(1) or rotate_right(1)
Rotated(r, published) ==
    [videos |-> r.videos, rotations |-> IF r.ok THEN 1 ELSE 0,
     published |-> published, panicked |-> ~r.ok]

\* Next rotating whatever the flag, publishing when it is set
Next_event_rotates_always(q, emit) ==
    Rotated(rotate_left(q),
            IF emit THEN <<Envelope(OP_NEXT, NoPayload)>> ELSE <<>>)

\* Next publishing whatever the flag
Next_event_republishes(q, emit) ==
    IF emit
    THEN Handled(q, <<Envelope(OP_NEXT, NoPayload)>>, FALSE)
    ELSE Rotated(rotate_left(q), <<Envelope(OP_NEXT, NoPayload)>>)

\* MediaPlayer::update, Next(emit)
Next_event(q, emit) ==
    IF emit
    THEN Handled(q, <<Envelope(OP_NEXT, NoPayload)>>, FALSE)
    ELSE Rotated(rotate_left(q), <<>>)

\* Previous rotating whatever the flag, publishing when it is set
Previous_event_rotates_always(q, emit) ==
    Rotated(rotate_right(q),
            IF emit THEN <<Envelope(OP_PREV, NoPayload)>> ELSE <<>>)

\* MediaPlayer::update, Previous(emit)
Previous_event(q, emit) ==
    IF emit
    THEN Handled(q, <<Envelope(OP_PREV, NoPayload)>>, FALSE)
    ELSE Rotated(rotate_right(q), <<>>)

\* MediaPlayer::update, AddVideo(msg): unwrap_and_into().unwrap() panics
\* on Empty and on a payload that is no Video
AddVideo_event(q, msg) ==
    IF msg.some /\ Video_from_value(msg.value).ok
    THEN Handled(Append(q, Video_from_value(msg.value).value), <<>>, FALSE)
    ELSE Handled(q, <<>>, TRUE)

\* MediaPlayer::update, RemoveVideo: VecDeque::remove(0)
RemoveVideo_event(q) ==
    Handled(IF q = <<>> THEN q ELSE Tail(q), <<>>, FALSE)

\* SyncTracks emitting a copy of the queue and keeping the queue
SyncTracks_event_keeps(q) ==
    Handled(q,
            <<Envelope(OP_SET_BULK_TRACKS, Some(BulkVideos_to_value(q)))>>,
            FALSE)

\* MediaPlayer::update, SyncTracks: drains the queue into a BulkVideos
\* and emits it
SyncTracks_event(q) ==
    Handled(<<>>,
            <<Envelope(OP_SET_BULK_TRACKS, Some(BulkVideos_to_value(q)))>>,
            FALSE)

\* SetBulkTracks without the comparison of the two lengths
SetBulkTracks_event_replaces(q, msg) ==
    IF msg.some /\ BulkVideos_from_value(msg.value).ok
    THEN Handled(BulkVideos_from_value(msg.value).value, <<>>, FALSE)
    ELSE Handled(q, <<>>, TRUE)

\* MediaPlayer::update, SetBulkTracks(msg)
SetBulkTracks_event(q, msg) ==
    IF msg.some /\ BulkVideos_from_value(msg.value).ok
    THEN IF Len(q) > Len(BulkVideos_from_value(msg.value).value)
         THEN Handled(q, <<>>, FALSE)
         ELSE Handled(BulkVideos_from_value(msg.value).value, <<>>, FALSE)
    ELSE Handled(q, <<>>, TRUE)

\* the callbacks MediaPlayer::create subscribes: the event each makes of
\* a message with its opcode
callback_event(opcode) ==
    CASE opcode = OP_NEXT -> "Next"
      [] opcode = OP_PREV -> "Previous"
      [] opcode = OP_ADD_TRACK -> "AddVideo"
      [] opcode = OP_REMOVE_TRACK -> "RemoveVideo"
      [] opcode = OP_SYNC_TRACKS -> "SyncTracks"
      [] opcode = OP_SET_BULK_TRACKS -> "SetBulkTracks"

\* MediaPlayer::update
MediaPlayer_update(q, kind, emit, msg) ==
    CASE kind = "Next" -> Next_event(q, emit)
      [] kind = "Previous" -> Previous_event(q, emit)
      [] kind = "AddVideo" -> AddVideo_event(q, msg)
      [] kind = "RemoveVideo" -> RemoveVideo_event(q)
      [] kind = "SyncTracks" -> SyncTracks_event(q)
      [] kind = "SetBulkTracks" -> SetBulkTracks_event(q, msg)

\* the relay forwards each envelope, in order, to every client, the
\* sender included
relay(boxes, published) ==
    [c \in Clients |-> boxes[c] \o published]

\* the opcodes of a sequence of envelopes
Opcodes(published) == [i \in DOMAIN published |-> published[i].opcode]

\* the number of envelopes with this opcode in a sequence
Count(published, opcode) ==
    Cardinality({i \in DOMAIN published : published[i].opcode = opcode})

\* one call of MediaPlayer::update by client c; the PUT of emit_event
\* reaches the relay (sent) or fails, which emit_event does not report
UpdateSending(c, kind, emit, msg, sent) ==
    LET r == MediaPlayer_update(videos[c], kind, emit, msg)
        forwarded == IF sent THEN Len(r.published) ELSE 0
    IN /\ relayed + forwarded <= MaxRelayed
       /\ videos' = [videos EXCEPT ![c] = r.videos]
       /\ player_crashed' = [player_crashed EXCEPT ![c] = r.panicked]
       /\ relayed' = relayed + forwarded
       /\ before_sync' = IF kind = "SyncTracks"
                         THEN [before_sync EXCEPT ![c] = videos[c]]
                         ELSE before_sync
       /\ emit_failed' = [emit_failed EXCEPT
                            ![c] = @ \/ (~sent /\ r.published # <<>>)]
       /\ publishes' = [o \in PlayerOps |->
                          publishes[o] + Count(r.published, o)]
       /\ rotated' = [rotated EXCEPT ![c] =
                        [o \in ButtonOps |->
                           IF callback_event(o) = kind
                           THEN @[o] + r.rotations ELSE @[o]]]
       /\ player_event' = [PlayerEvent(kind) EXCEPT
                             !.client = c, !.emit = emit,
                             !.before = videos[c],
                             !.published = Opcodes(r.published),
                             !.panicked = r.panicked,
                             !.msg = msg]
       /\ UNCHANGED <<engine, observed, ui, codec, playlist, videoplayer>>

\* one call of MediaPlayer::update by client c, with what it emits relayed
Update(c, kind, emit, msg) == UpdateSending(c, kind, emit, msg, TRUE)

\* a user presses the Next or Previous button, rendered while the queue
\* is not empty
Click(c, opcode) ==
    /\ ~player_crashed[c]
    /\ Len(videos[c]) > 0
    /\ Update(c, callback_event(opcode), TRUE, NoPayload)
    /\ inbox' = relay(inbox, MediaPlayer_update(videos[c],
                         callback_event(opcode), TRUE, NoPayload).published)
    /\ clicks' = [clicks EXCEPT ![opcode] = @ + 1]

\* the engine of client c dispatches the next relayed message to the
\* callback of the media player bound to its opcode
Receive(c) ==
    /\ ~player_crashed[c]
    /\ inbox[c] # <<>>
    /\ LET m == Head(inbox[c])
           kind == callback_event(m.opcode)
       IN /\ Update(c, kind, FALSE, m.payload)
          /\ inbox' = relay([inbox EXCEPT ![c] = Tail(inbox[c])],
                            MediaPlayer_update(videos[c], kind, FALSE,
                                               m.payload).published)
    /\ UNCHANGED clicks

\* what reaches the relay from outside the media players
ExternalMessages ==
    {Envelope(OP_ADD_TRACK, Some(Video_to_value(v))) : v \in Videos}
    \cup {Envelope(OP_ADD_TRACK, NoPayload),
          Envelope(OP_REMOVE_TRACK, NoPayload),
          Envelope(OP_SYNC_TRACKS, NoPayload),
          Envelope(OP_SET_BULK_TRACKS, NoPayload)}

\* the relay forwards a message published by something else than a player
External(m) ==
    /\ relayed < MaxRelayed
    /\ relayed' = relayed + 1
    /\ inbox' = relay(inbox, <<m>>)
    /\ UNCHANGED <<videos, publishes, clicks, rotated, player_crashed,
                   before_sync, emit_failed, player_event>>
    /\ UNCHANGED <<engine, observed, ui, codec, playlist, videoplayer>>

PlayerNext ==
    \/ \E c \in Clients, opcode \in ButtonOps : Click(c, opcode)
    \/ \E c \in Clients : Receive(c)
    \/ \E m \in ExternalMessages : External(m)

PlayerSpec == Init /\ [][PlayerNext]_vars

\* the queue q with every track moved k places towards the front
RotatedBy(q, k) ==
    [i \in 1..Len(q) |-> q[((i - 1 + k) % Len(q)) + 1]]

Pending(c, opcode) == Count(inbox[c], opcode)

QueueRotated ==
    LET q == player_event.before
    IN videos[player_event.client]
          = RotatedBy(q, IF player_event.kind = "Next" THEN 1 ELSE Len(q) - 1)

Bulk == BulkVideos_from_value(player_event.msg.value).value

\* the larger of two lengths
Max(a, b) == IF a > b THEN a ELSE b

\* C33: SetBulkTracks with a track list B leaves a strictly longer local
\* queue unchanged and otherwise makes the queue exactly B; the length
\* afterwards is the larger of the two and never less than before.
C33_SetBulkKeepsLarger ==
    (player_event.kind = "SetBulkTracks" /\ ~player_event.panicked)
        => LET q == player_event.before
               now == videos[player_event.client]
           IN /\ Len(q) > Len(Bulk) => now = q
              /\ Len(q) <= Len(Bulk) => now = Bulk
              /\ Len(now) = Max(Len(q), Len(Bulk))
              /\ Len(now) >= Len(q)

\* a client that added a track after its sync received a shorter list
\* and kept its queue
C33_Witness ==
    /\ player_event.kind = "SetBulkTracks"
    /\ ~player_event.panicked
    /\ Len(player_event.before) > Len(Bulk)
    /\ videos[player_event.client] = player_event.before

\* C37: a Next(false) or Previous(false) that finds the track queue empty
\* leaves it empty and does not panic.
C37_RemoteRotateOnEmptyIsHarmless ==
    (/\ player_event.kind \in {"Next", "Previous"}
     /\ ~player_event.emit
     /\ player_event.before = <<>>)
        => /\ ~player_event.panicked
           /\ videos[player_event.client] = <<>>

(* ------------------------------------------------------------------ *)
(* The sync round of the media players                                 *)
(*                                                                     *)
(* The clients of a room may hold different queues: the relay forwards *)
(* a message to the clients listening at that moment, and a client     *)
(* that joins later, or whose engine was reconnecting, has missed it.  *)
(* A MediaPlayer that is created publishes OP_SYNC_TRACKS; every       *)
(* client answers with its queue in an OP_SET_BULK_TRACKS.             *)
(* ------------------------------------------------------------------ *)

\* the relay forwards an OP_ADD_TRACK while only client c is listening, and
\* c handles it
AddTrackMissed(c, v) ==
    /\ relayed = 0
    /\ Len(videos[c]) < MaxHeld
    /\ Update(c, "AddVideo", FALSE, Some(Video_to_value(v)))
    /\ UNCHANGED <<inbox, clicks>>

\* MediaPlayer::create: the OP_SYNC_TRACKS of a new player reaches the relay
\* while no other message is in flight
SyncPublished ==
    /\ relayed = 0
    /\ External(Envelope(OP_SYNC_TRACKS, NoPayload))

\* the engine of client c dispatches the next relayed message to the media
\* player; what the player emits reaches the relay, or the PUT fails
SyncReceive(c, sent) ==
    /\ ~player_crashed[c]
    /\ inbox[c] # <<>>
    /\ LET m == Head(inbox[c])
           kind == callback_event(m.opcode)
           published == MediaPlayer_update(videos[c], kind, FALSE,
                                           m.payload).published
       IN /\ sent \/ published # <<>>
          /\ UpdateSending(c, kind, FALSE, m.payload, sent)
          /\ inbox' = relay([inbox EXCEPT ![c] = Tail(inbox[c])],
                            IF sent THEN published ELSE <<>>)
    /\ UNCHANGED clicks

SyncNext ==
    \/ \E c \in Clients, v \in Videos : AddTrackMissed(c, v)
    \/ SyncPublished
    \/ \E c \in Clients, sent \in BOOLEAN : SyncReceive(c, sent)

SyncSpec == Init /\ [][SyncNext]_vars

\* the OP_SYNC_TRACKS and every OP_SET_BULK_TRACKS that reached the relay
\* have been handled by every client
RoundDone == relayed > 0 /\ \A c \in Clients : inbox[c] = <<>>

\* C38: once the OP_SYNC_TRACKS and every OP_SET_BULK_TRACKS it triggered
\* have been handled by all clients, all clients hold the same queue.
C38_SyncConverges ==
    RoundDone => \A c, d \in Clients : videos[c] = videos[d]

\* two clients that held different queues, neither empty, hold the same
\* tracks after the round
C38_Witness ==
    /\ RoundDone
    /\ \A c \in Clients : before_sync[c] # <<>> /\ ~emit_failed[c]
    /\ before_sync[1] # before_sync[2]
    /\ videos[1] = videos[2]
    /\ videos[1] # <<>>

\* C39: a client whose OP_SET_BULK_TRACKS never reached the relay, in a
\* room where no other client held a track, holds after the round the
\* queue it held before it.
C39_FailedPublishKeepsQueue ==
    RoundDone =>
        \A c \in Clients :
            (/\ emit_failed[c]
             /\ \A d \in Clients \ {c} : before_sync[d] = <<>>)
                => videos[c] = before_sync[c]

(* ------------------------------------------------------------------ *)
(* The envelope on the wire                                            *)
(* ------------------------------------------------------------------ *)

\* opcodes.rs: the opcodes 0..10
OpCodes == 0..OP_SET_BULK_TRACKS

\* the track lists of a BulkVideos payload
BulkLists == UNION {[1..n -> Videos] : n \in 0..MaxBulk}

\* values of WrappingWsMessage.payload: None, Some of the payloads the
\* modules build with to_value, and Some of the JSON null
Payloads ==
    {NoPayload, Some(JNull)}
    \cup {Some(Message_to_value(m)) : m \in ChatMessages}
    \cup {Some(Video_to_value(v)) : v \in Videos}
    \cup {Some(BulkVideos_to_value(l)) : l \in BulkLists}
    \cup {Some(SeekTo_to_value(pos)) : pos \in 0..1}

Envelopes == [opcode : OpCodes, payload : Payloads]

\* emit_event: the envelope is serialized as the body of the request
Encode(e) ==
    /\ envelope' = e
    /\ wire' = serialize(e)
    /\ decoded' = Undecoded
    /\ UNCHANGED <<engine, observed, ui, player, playlist, videoplayer>>

\* on_message: serde_json::from_str::<WrappingWsMessage> of the text
Decode ==
    /\ wire # <<>>
    /\ ~decoded.done
    /\ decoded' = [done |-> TRUE, ok |-> deserialize(wire).ok,
                   envelope |-> deserialize(wire).envelope]
    /\ UNCHANGED <<envelope, wire>>
    /\ UNCHANGED <<engine, observed, ui, player, playlist, videoplayer>>

CodecNext ==
    \/ \E e \in Envelopes : Encode(e)
    \/ Decode

CodecSpec == Init /\ [][CodecNext]_vars

WithStatusCb == {id \in DOMAIN subscribers : subscribers[id].on_ws_status # None}

\* C23: a status transition invokes each group of the table that holds a
\* status callback exactly once, with the new status, and invokes no group
\* that holds message bindings only.
C23_StatusBroadcastOncePerGroup ==
    Broadcast =>
        /\ Len(calls) = Cardinality(WithStatusCb)
        /\ \A id \in WithStatusCb :
              CallsOf(id) = <<[group |-> id,
                               cb |-> subscribers[id].on_ws_status,
                               arg |-> sent_status]>>
        /\ \A id \in DOMAIN subscribers \ WithStatusCb : CallsOf(id) = <<>>

\* a close broadcast to a table of two groups, one with a status callback
\* and one with message bindings only
C23_Witness ==
    /\ last_event.kind = "close"
    /\ Cardinality(DOMAIN subscribers) = 2
    /\ Cardinality(WithStatusCb) = 1
    /\ Len(calls) = 1
    /\ calls[1].arg = sent_status

\* the closes handled since the most recent Connect (or since connect, if
\* the socket never opened) that broadcast Disconnect
Disconnects ==
    Cardinality({i \in DOMAIN status_hist : status_hist[i] = "Disconnect"})

\* C27: a handled open leaves retry_attempt at 0, retry_attempt counts the
\* closes since the most recent Connect only, and ClosedPermanently is
\* broadcast only when those closes have used up the budget.
C27_RetryBudgetPerOutage ==
    /\ last_event.kind = "open" => retry_attempt = 0
    /\ retry_attempt = Disconnects
    /\ closed_permanently => Disconnects > RETRY_LIMIT

\* an open handled after an error, so after the close that followed the
\* error and the reconnect it made
C27_Witness ==
    /\ last_event.kind = "open"
    /\ ever_errored
    /\ socket = "open"
    /\ retry_attempt = 0

\* C28 as stated: between two Connects, or between a Connect and
\* ClosedPermanently, reconnect starts at most RETRY_LIMIT websockets.
C28_AtMostRetryLimitReconnects ==
    ever_opened => reconnects <= RETRY_LIMIT

\* C28 amended: it starts at most RETRY_LIMIT + 1 websockets, before the
\* first Connect as well, and every one of them follows a Disconnect.
C28_AtMostRetryLimitPlusOneReconnects ==
    /\ reconnects <= RETRY_LIMIT + 1
    /\ reconnects <= Disconnects

\* the budget used up after a Connect: four reconnects, then
\* ClosedPermanently
C28_Witness ==
    /\ ever_opened
    /\ closed_permanently
    /\ reconnects = RETRY_LIMIT + 1
    /\ sent_status = "ClosedPermanently"

\* C29: start_websocket is called only by connect and while a close event
\* is handled, at most once per close event, so the calls never exceed one
\* plus the close events handled.
C29_OpensDrivenByCloses ==
    /\ started \in {0, 1}
    /\ started = 1 => last_event.kind \in {"connect", "close"}
    /\ open_budget >= 0

\* a close that reconnected, after an earlier close that did too
C29_Witness ==
    /\ last_event.kind = "close"
    /\ started = 1
    /\ reconnects >= 2
    /\ open_budget = 0

\* C30: subscribe_to_status and subscribe_to_message append one entry to
\* their own queue and leave the subscriber table, retry_attempt,
\* connecting_first and the transport as they were; the table changes only
\* by check_status_updates (open, close) and check_message_updates (a
\* frame that decodes).
C30_SubscribeOnlyAppends ==
    [][/\ last_event'.kind = "subscribe_to_status"
          => /\ \E id \in Groups :
                   status_updates' = Append(status_updates, <<id, next_cb>>)
             /\ UNCHANGED <<message_updates, subscribers, retry_attempt,
                            connecting_first, socket>>
             /\ started' = 0
       /\ last_event'.kind = "subscribe_to_message"
          => /\ \E id \in Groups, opcode \in SubOps :
                   message_updates' =
                       Append(message_updates, <<id, opcode, next_cb>>)
             /\ UNCHANGED <<status_updates, subscribers, retry_attempt,
                            connecting_first, socket>>
             /\ started' = 0
       /\ subscribers' # subscribers
          => \/ /\ last_event'.kind \in {"open", "close"}
                /\ subscribers' =
                      check_status_updates(subscribers, status_updates)
             \/ /\ last_event'.kind = "message"
                /\ last_event'.ok
                /\ subscribers' =
                      check_message_updates(subscribers, message_updates)]_vars

\* a status subscription made while the socket was open and the table held
\* a group: it waits in the queue
C30_Witness ==
    /\ last_event.kind = "subscribe_to_status"
    /\ socket = "open"
    /\ DOMAIN subscribers # {}
    /\ Len(status_updates) = 1
    /\ \A id \in DOMAIN subscribers :
          subscribers[id].on_ws_status # status_updates[1][2]

\* C31: the subscriber table only grows: no step removes a group, the
\* status callback of a group, or the binding of a group for an opcode
\* (a status callback or a binding may be replaced by a newer one).
C31_TableOnlyGrows ==
    [][\A id \in DOMAIN subscribers :
          /\ id \in DOMAIN subscribers'
          /\ subscribers[id].on_ws_status # None
                => subscribers'[id].on_ws_status # None
          /\ DOMAIN subscribers[id].on_ws_message
                \subseteq DOMAIN subscribers'[id].on_ws_message]_vars

\* a group that got a binding, then a newer callback for the same opcode,
\* then a status callback: it holds the newer binding and the status
\* callback
C31_Witness ==
    \E id \in DOMAIN subscribers, opcode \in SubOps :
        /\ opcode \in DOMAIN subscribers[id].on_ws_message
        /\ subscribers[id].on_ws_message[opcode] = 2
        /\ subscribers[id].on_ws_status = 3
        /\ last_event.kind \in {"open", "close"}

\* C35: handling a transport error invokes no callback, passes no status to
\* send_all_status, calls start_websocket not once, leaves retry_attempt,
\* the subscriber table and both registration queues as they were, and
\* leaves connecting_first cleared.
C35_ErrorOnlyClearsFlag ==
    [][last_event'.kind = "error"
          => /\ ~connecting_first'
             /\ calls' = <<>>
             /\ sent_status' = "None"
             /\ started' = 0
             /\ UNCHANGED <<retry_attempt, subscribers, status_updates,
                            message_updates, status_hist>>]_vars

\* an error handled during a reconnect attempt, with retries counted and a
\* group that has a status callback
C35_Witness ==
    /\ last_event.kind = "error"
    /\ retry_attempt > 0
    /\ WithStatusCb # {}
    /\ ~connecting_first

\* The transport answers every attempt: a WebSocket that is connecting,
\* or has reported an error while connecting, calls onopen or onclose.
TransportAnswers ==
    /\ socket \in {"connecting", "error_connecting"}
    /\ (OnOpen \/ OnClose)

\* The engine with a transport that answers every attempt
LiveSpec == Init /\ [][Next]_vars /\ WF_vars(TransportAnswers)

\* C36: with a transport that answers every attempt, every Disconnect
\* broadcast is followed by a Connect or a ClosedPermanently broadcast.
\* The claim is taken where the spec leaves no exception: for a Disconnect
\* broadcast after the connection had opened (a first attempt that never
\* opened is documented not to reconnect).
C36_NeverDisconnectedForever ==
    (sent_status = "Disconnect" /\ ever_opened)
        ~> (sent_status \in {"Connect", "ClosedPermanently"})

(* ------------------------------------------------------------------ *)
(* The media playlist (video.rs)                                       *)
(* ------------------------------------------------------------------ *)

\* the videos a user queues: a direct link and a magnet link; a url is held
\* as its parts, first and last of which are its prefix and suffix
QueuedVideos ==
    {[title |-> "a", url |-> <<"https://", "a", ".mp4">>],
     [title |-> "t", url |-> <<"magnet", ":t">>]}

\* the files of a torrent handed to the callback of extract_files
TorrentFiles == {<<[name |-> "f1"], [name |-> "f2"]>>}

\* str::starts_with and str::ends_with
starts_with(url, prefix) == url # <<>> /\ Head(url) = prefix
ends_with(url, suffix) == url # <<>> /\ url[Len(url)] = suffix

\* extractTitle of wt.js
extract_title(file) == file.name

\* Vec::remove(index), index counted from 0: panics when out of bounds
Vec_remove(v, index) ==
    IF index >= Len(v) THEN [ok |-> FALSE, v |-> v]
    ELSE [ok |-> TRUE,
          v |-> SubSeq(v, 1, index) \o SubSeq(v, index + 2, Len(v))]

\* MediaPlaylist::extract_video: a direct link becomes a track at once, a
\* torrent is handed to extract_files
extract_video(extracted, index, video) ==
    IF starts_with(video.url, "magnet") \/ ends_with(video.url, ".torrent")
    THEN extracted
    ELSE Append(extracted,
                [video_name |-> video.title,
                 video_type |-> [kind |-> "Direct", value |-> video.url],
                 playlist_id |-> index])

\* MediaPlaylist::submit_video: the files of the queued video at index
\* become tracks; an index past the queue is ignored
submit_video(queued, extracted, index, files) ==
    IF index >= Len(queued) THEN extracted
    ELSE extracted \o
         [i \in 1..Len(files) |->
            [video_name |-> queued[index + 1].title \o " - "
                               \o extract_title(files[i]),
             video_type |-> [kind |-> "Torrent", value |-> files[i]],
             playlist_id |-> index]]

\* MediaPlaylist::delete_current: the front track is removed; its queued
\* video is removed when another track has the same playlist_id or no
\* track is left
delete_current(queued, extracted) ==
    IF extracted = <<>>
    THEN [ok |-> TRUE, queued |-> queued, extracted |-> extracted]
    ELSE LET video == Head(extracted)
             rest == Tail(extracted)
             remove_queued ==
                 \E i \in DOMAIN rest : rest[i].playlist_id = video.playlist_id
             r == Vec_remove(queued, video.playlist_id)
         IN IF remove_queued \/ Len(rest) = 0
            THEN [ok |-> r.ok, queued |-> r.v, extracted |-> rest]
            ELSE [ok |-> TRUE, queued |-> queued, extracted |-> rest]

\* MediaPlaylist::rotate_next
rotate_next(extracted) == rotate_left(extracted)

\* MediaPlaylist::rotate_prev: `self.extracted_videos.rotate_left(1)`
rotate_prev(extracted) == rotate_left(extracted)

\* MediaPlaylist::len and MediaPlaylist::queue_len
len == Len(extracted_videos)
queue_len == Len(queued_videos)

\* the two rotations
Rotations == {"rotate_next", "rotate_prev"}

\* what a method of the playlist has just been called on
Called(kind) ==
    LET e == [PlaylistEvent(kind) EXCEPT
                 !.direct_only =
                     /\ playlist_event.direct_only
                     /\ kind \in {"append_video", "delete_current"}]
    IN IF kind = "delete_current"
       THEN [e EXCEPT !.queued = queued_videos,
                      !.tracks = Len(extracted_videos)]
       ELSE IF kind = "rotate_prev" /\ playlist_event.kind = "rotate_next"
       THEN [e EXCEPT !.extracted = extracted_videos,
                      !.prev_kind = playlist_event.kind,
                      !.prev_extracted = playlist_event.extracted]
       ELSE IF kind \in Rotations
       THEN [e EXCEPT !.extracted = extracted_videos]
       ELSE e

AppendVideo(video) ==
    /\ ~playlist_crashed
    /\ Len(queued_videos) < MaxQueued
    /\ Len(extracted_videos) < MaxTracks
    /\ extracted_videos' =
          extract_video(extracted_videos, Len(queued_videos), video)
    /\ queued_videos' = Append(queued_videos, video)
    /\ playlist_event' = Called(IF extracted_videos' = extracted_videos
                                THEN "append_torrent" ELSE "append_video")
    /\ UNCHANGED playlist_crashed
    /\ UNCHANGED <<engine, observed, ui, player, codec, videoplayer>>

\* the callback given to MediaPlaylist::new has received (index, files)
SubmitVideo(index, files) ==
    /\ ~playlist_crashed
    /\ Len(extracted_videos) + Len(files) <= MaxTracks
    /\ extracted_videos' =
          submit_video(queued_videos, extracted_videos, index, files)
    /\ playlist_event' = Called("submit_video")
    /\ UNCHANGED <<queued_videos, playlist_crashed>>
    /\ UNCHANGED <<engine, observed, ui, player, codec, videoplayer>>

DeleteCurrent ==
    /\ ~playlist_crashed
    /\ LET r == delete_current(queued_videos, extracted_videos)
       IN /\ queued_videos' = r.queued
          /\ extracted_videos' = r.extracted
          /\ playlist_crashed' = ~r.ok
    /\ playlist_event' = Called("delete_current")
    /\ UNCHANGED <<engine, observed, ui, player, codec, videoplayer>>

RotateNext ==
    /\ ~playlist_crashed
    /\ LET r == rotate_next(extracted_videos)
       IN /\ extracted_videos' = r.videos
          /\ playlist_crashed' = ~r.ok
    /\ playlist_event' = Called("rotate_next")
    /\ UNCHANGED queued_videos
    /\ UNCHANGED <<engine, observed, ui, player, codec, videoplayer>>

RotatePrev ==
    /\ ~playlist_crashed
    /\ LET r == rotate_prev(extracted_videos)
       IN /\ extracted_videos' = r.videos
          /\ playlist_crashed' = ~r.ok
    /\ playlist_event' = Called("rotate_prev")
    /\ UNCHANGED queued_videos
    /\ UNCHANGED <<engine, observed, ui, player, codec, videoplayer>>

PlaylistNext ==
    \/ \E video \in QueuedVideos : AppendVideo(video)
    \/ \E index \in 0..(MaxQueued - 1), files \in TorrentFiles :
          SubmitVideo(index, files)
    \/ DeleteCurrent
    \/ RotateNext
    \/ RotatePrev

PlaylistSpec == Init /\ [][PlaylistNext]_vars

\* C24: while a playlist has only been given direct links by append_video
\* and had delete_current called, queue_len() equals len().
C24_QueueLenEqualsLen ==
    (playlist_event.direct_only /\ ~playlist_crashed) => queue_len = len

\* C25: rotate_prev undoes rotate_next on a playlist of one or more
\* tracks, and rotate_prev alone makes the last track the current one.
C25_RotatePrevUndoesRotateNext ==
    /\ (/\ playlist_event.kind = "rotate_prev"
        /\ playlist_event.prev_kind = "rotate_next"
        /\ Len(playlist_event.prev_extracted) >= 1)
          => extracted_videos = playlist_event.prev_extracted
    /\ (/\ playlist_event.kind = "rotate_prev"
        /\ Len(playlist_event.extracted) >= 1)
          => Head(extracted_videos)
                = playlist_event.extracted[Len(playlist_event.extracted)]

\* C26: delete_current never panics: on an empty playlist it changes
\* nothing, otherwise it removes the current track.
C26_DeleteCurrentNeverFails ==
    playlist_event.kind = "delete_current"
        => /\ ~playlist_crashed
           /\ playlist_event.tracks = 0
                 => (extracted_videos = <<>>
                     /\ queued_videos = playlist_event.queued)
           /\ playlist_event.tracks > 0
                 => Len(extracted_videos) = playlist_event.tracks - 1

(* ------------------------------------------------------------------ *)
(* The video player (player.rs, VideoPlayer)                           *)
(*                                                                     *)
(* One VideoPlayer in a room: the local user works its controls, and   *)
(* the engine hands it the Play, Pause, Seek and TimeCheck messages    *)
(* that the relay forwards, whoever published them.                    *)
(* ------------------------------------------------------------------ *)

\* player.rs, view: the seek slider, `min="0" max="1000"`
SliderValues == {0, 500, 1000}

\* binder.rs, get_duration: the length of the loaded video
get_duration == MaxPosition

\* the payloads a relayed OP_SEEK can carry
SeekPayloads ==
    {NoPayload, Some(JStr("x"))}
    \cup {Some(SeekTo_to_value(p)) : p \in 0..MaxPosition}

\* the VideoPlayer as a handler finds it; nothing published or posted yet
VideoState ==
    [first_start |-> first_start, ignore_time_check |-> ignore_time_check,
     playing |-> playing, position |-> position,
     published |-> <<>>, posted |-> 0, panicked |-> FALSE]

\* video.rs, Video::play and Video::pause: the flag after the call
Video_play(is_playing) == TRUE
Video_pause(is_playing) == FALSE

\* on_video_event, VideoEvent::Play
on_video_Play(st) ==
    IF st.first_start
    THEN [st EXCEPT
            !.published = <<[opcode |-> OP_TIME_CHECK, payload |-> NoPayload],
                            [opcode |-> OP_PAUSE, payload |-> NoPayload]>>,
            !.playing = Video_pause(Video_play(st.playing)),
            !.first_start = FALSE,
            !.ignore_time_check = TRUE]
    ELSE [st EXCEPT
            !.published = <<[opcode |-> OP_PLAY, payload |-> NoPayload]>>]

\* on_video_event, VideoEvent::Pause: on_pause
on_video_Pause(st) ==
    [st EXCEPT !.published = <<[opcode |-> OP_PAUSE, payload |-> NoPayload]>>]

\* on_video_event, VideoEvent::ShouldSend: on_seek_complete(get_pos())
on_video_ShouldSend(st) ==
    [st EXCEPT !.published =
        <<[opcode |-> OP_SEEK,
           payload |-> Some(SeekTo_to_value(st.position))]>>]

\* on_video_event, VideoEvent::UpdateSeek: the slider value is in tenths of
\* a percent of the duration
on_video_UpdateSeek(value, st) ==
    [st EXCEPT !.position = (get_duration * value) \div 1000]

\* on_ws_message, VideoWebsocketEvent::Play, without the first_start test
on_ws_Play_at_once(st) == [st EXCEPT !.playing = Video_play(st.playing)]

\* on_ws_message, VideoWebsocketEvent::Play
on_ws_Play(st) ==
    IF st.first_start THEN st
    ELSE [st EXCEPT !.playing = Video_play(st.playing)]

\* on_ws_message, VideoWebsocketEvent::Pause
on_ws_Pause(st) ==
    IF st.first_start THEN st
    ELSE [st EXCEPT !.playing = Video_pause(st.playing)]

\* on_ws_message, VideoWebsocketEvent::Seek: the payload is unwrapped only
\* once first_start is off, and a missing or malformed one panics
on_ws_Seek(msg, st) ==
    IF st.first_start THEN st
    ELSE IF msg.some /\ SeekTo_from_value(msg.value).ok
    THEN [st EXCEPT !.position = SeekTo_from_value(msg.value).value]
    ELSE [st EXCEPT !.panicked = TRUE]

\* on_ws_message, VideoWebsocketEvent::TimeCheck
on_ws_TimeCheck(st) ==
    IF st.ignore_time_check
    THEN [st EXCEPT !.ignore_time_check = FALSE]
    ELSE [st EXCEPT !.posted = 1]

\* VideoPlayer::update: the handler has run and left `st`
VideoUpdate(kind, remote, msg, st) ==
    /\ ~video_crashed
    /\ first_start' = st.first_start
    /\ ignore_time_check' = st.ignore_time_check
    /\ playing' = st.playing
    /\ position' = st.position
    /\ video_crashed' = st.panicked
    /\ video_event' = [kind |-> kind, remote |-> remote, msg |-> msg,
                       first_before |-> first_start,
                       playing_before |-> playing,
                       position_before |-> position,
                       published |-> st.published, posted |-> st.posted]
    /\ UNCHANGED <<engine, observed, ui, player, codec, playlist>>

\* the local user presses Play
Video_Play == VideoUpdate("Play", FALSE, NoPayload, on_video_Play(VideoState))

\* the local user presses Pause
Video_Pause ==
    VideoUpdate("Pause", FALSE, NoPayload, on_video_Pause(VideoState))

\* the local user drags the seek slider
Video_UpdateSeek(value) ==
    VideoUpdate("UpdateSeek", FALSE, NoPayload,
                on_video_UpdateSeek(value, VideoState))

\* the local user lets go of the seek slider
Video_ShouldSend ==
    VideoUpdate("ShouldSend", FALSE, NoPayload,
                on_video_ShouldSend(VideoState))

\* the engine delivers a relayed OP_PLAY
Ws_Play == VideoUpdate("Play", TRUE, NoPayload, on_ws_Play(VideoState))

\* the engine delivers a relayed OP_PAUSE
Ws_Pause == VideoUpdate("Pause", TRUE, NoPayload, on_ws_Pause(VideoState))

\* the engine delivers a relayed OP_SEEK
Ws_Seek(msg) == VideoUpdate("Seek", TRUE, msg, on_ws_Seek(msg, VideoState))

\* the engine delivers a relayed OP_TIME_CHECK
Ws_TimeCheck ==
    VideoUpdate("TimeCheck", TRUE, NoPayload, on_ws_TimeCheck(VideoState))

VideoNext ==
    \/ Video_Play
    \/ Video_Pause
    \/ \E value \in SliderValues : Video_UpdateSeek(value)
    \/ Video_ShouldSend
    \/ Ws_Play
    \/ Ws_Pause
    \/ \E msg \in SeekPayloads : Ws_Seek(msg)
    \/ Ws_TimeCheck

VideoSpec == Init /\ [][VideoNext]_vars

\* the event handled last was a remote Play, Pause or Seek
RemotePlayback ==
    video_event.remote /\ video_event.kind \in {"Play", "Pause", "Seek"}

\* C34: a remote Play, Pause or Seek that arrives while first_start is
\* still set leaves the playing flag and the position as they were, leaves
\* first_start set and does not panic; hence one that changed either of
\* them arrived after the local user's first press of Play.
C34_RemoteIgnoredUntilFirstPlay ==
    (RemotePlayback /\ video_event.first_before) =>
        /\ playing = video_event.playing_before
        /\ position = video_event.position_before
        /\ first_start
        /\ ~video_crashed

\* a remote Seek with a well-formed payload naming another position came
\* while first_start was set
C34_Witness ==
    /\ RemotePlayback
    /\ video_event.kind = "Seek"
    /\ video_event.first_before
    /\ video_event.msg.some
    /\ SeekTo_from_value(video_event.msg.value).ok
    /\ SeekTo_from_value(video_event.msg.value).value # position

====
